---------------------------- MODULE Spec2Model ----------------------------
(***************************************************************************)
(* Wireless M-Bus frame acquisition (esphome wmbus_radio component).       *)
(*                                                                         *)
(* The specifications of this module:                                      *)
(*   SpecDec  the 3-of-6 line decoder (decode3of6.cpp), a pure function    *)
(*            applied to inputs drawn from a bounded set;                  *)
(*   SpecEnc  encoded_size (decode3of6.cpp), likewise;                     *)
(*   SpecQ    the receiver task, the handoff queue and the consumer loop   *)
(*            (component.cpp);                                             *)
(*   SpecRx   the CC1101 receive state machine (transceiver_cc1101.cpp)    *)
(*            interleaved, bus transaction by bus transaction, with the    *)
(*            chip filling its RX FIFO;                                    *)
(*   SpecHdr  the header step of that state machine (wait_for_data_)       *)
(*            applied to every header and a range of FIFO fillings;        *)
(*   SpecSetup CC1101::setup, Radio::setup and the receiver task they      *)
(*            start, for every answer of the chip to the identity read.    *)
(* Each specification moves only its own variables; the others keep the    *)
(* value they have after construction.                                     *)
(***************************************************************************)
EXTENDS Integers, Sequences, FiniteSets, TLC

VARIABLES
    \* ---- decode3of6 (SpecDec) ----
    coded_data,     \* the argument of decode3of6: a sequence of bytes
    decoded,        \* the value decode3of6 returned
    dec_pc,         \* "ready" before the call, "done" after it
    \* ---- encoded_size (SpecEnc) ----
    enc_n,          \* the argument of encoded_size
    enc_out,        \* the value encoded_size returned
    enc_pc,         \* "ready" before the call, "done" after it
    \* ---- receiver task, handoff queue, consumer loop (SpecQ) ----
    use_interrupt,  \* radio->has_irq_pin()
    rx_initialized, \* static bool rx_initialized of receive_frame
    notify_pending, \* the task notification the interrupt routine gives
    rpc,            \* where the receiver task is inside receive_frame
    packet,         \* the unique_ptr packet of receive_frame: 0 is null
    packet_info,    \* what receive_frame did to each packet it completed
    created,        \* number of packets that reached xQueueSend so far
    packet_queue_,  \* the FreeRTOS queue of Packet pointers, oldest first
    handlers_,      \* the registered frame handlers, in registration order
    freed,          \* who destroyed each packet: a set per packet
    delivered,      \* the packets Radio::loop dequeued, in order
    calls,          \* the handler invocations <<packet, handler>>, in order
    send_log,       \* what the last xQueueSend of receive_frame saw and did
    recv_log,       \* what the last receive_frame invocation did before it
    tick,           \* what the last Radio::loop call saw and did
    \* ---- the CC1101 chip as the bus and the pins show it (SpecRx) ----
    marc,           \* MARCSTATE: "IDLE", "RX" or "RX_OVERFLOW"
    gdo2,           \* GDO2 pin (IOCFG2 = 0x06): sync word seen, packet open
    fifo_rd,        \* bytes of this transmission read or flushed so far
    fifo_wr,        \* bytes of this transmission put into the RX FIFO
    tx,             \* the transmission on air: its first four bytes, <<>>
                    \* when the chip is receiving none
    fifothr,        \* register FIFOTHR
    pktlen,         \* register PKTLEN
    pktctrl0,       \* register PKTCTRL0: 0 fixed length, 2 infinite length
    overflowed,     \* the FIFO overflowed after read() saw the sync word
                    \* and before read_data_ found the frame complete
    since_sync,     \* millis() - sync_time_, counted up to max_wait_time_+1
    \* ---- CC1101 members (SpecRx) ----
    rx_state_, rx_buffer_, bytes_received_, expected_length_, length_field_,
    length_mode_, wmbus_mode_, wmbus_block_,
    \* ---- one invocation of CC1101::read (SpecRx) ----
    pc,             \* the next bus transaction of read(), "idle" between calls
    n_read,         \* bytes_to_read of the FIFO read about to be made
    inv,            \* what the current or last read() invocation saw and did
    \* ---- CC1101::setup and Radio::setup (SpecSetup) ----
    version,        \* what the VERSION status register reads
    custom_frequency, \* frequency_mhz_ != 868.95f
    su_pc,          \* "boot", "cc_done" after CC1101::setup, "radio_done"
    cc_failed,      \* the transceiver component is marked failed
    radio_failed,   \* the radio component is marked failed
    setup_ops,      \* the bus operations CC1101::setup issued, in order
    \* ---- one call of init_rx_, poll by poll (SpecInit) ----
    ir_pc,          \* where the call is: "call", "idle_poll", "configure",
                    \* "rx_poll", "finish", "done"
    idle_polls,     \* MARCSTATE reads made by the loop of set_idle_
    rx_polls,       \* MARCSTATE reads made by the loop of init_rx_
    rx_entered,     \* bool rx_entered of init_rx_
    \* ---- the millisecond clock as 32-bit values (SpecWait) ----
    sync_time_,     \* uint32_t sync_time_, as <<high half, low half>>
    millis,         \* what millis() returns, as <<high half, low half>>
    elapsed,        \* the milliseconds that have passed since sync_time_
                    \* was taken
    \* ---- get_rssi (SpecRssi) ----
    rssi_raw,       \* what the RSSI status register reads
    rssi_dbm,       \* the value get_rssi returned
    rssi_pc,        \* "ready" before the call, "done" after it
    \* ---- set_carrier_frequency (SpecFreq) ----
    frequency_mhz_, \* float frequency_mhz_, in hundredths of a MHz
    freq_ops,       \* the register writes set_carrier_frequency issued
    freq_pc,        \* "ready" before the call, "done" after it
    \* ---- the READ_DATA loop of one invocation (SpecLoop) ----
    loop_counter    \* static uint32_t loop_counter of the loop, less its
                    \* value when read() was entered: the iterations the
                    \* invocation has begun

decVars == <<coded_data, decoded, dec_pc>>

encVars == <<enc_n, enc_out, enc_pc>>

qVars == <<use_interrupt, rx_initialized, notify_pending, rpc, packet,
           packet_info, created, packet_queue_, handlers_, freed, delivered,
           calls, send_log, recv_log, tick>>

hwVars == <<marc, gdo2, fifo_rd, fifo_wr, tx, fifothr, pktlen, pktctrl0,
            overflowed>>

drvVars == <<rx_state_, rx_buffer_, bytes_received_, expected_length_,
             length_field_, length_mode_, wmbus_mode_, wmbus_block_>>

callVars == <<pc, n_read, inv>>

rxVars == <<hwVars, drvVars, callVars, since_sync>>

suVars == <<version, custom_frequency, su_pc, cc_failed, radio_failed,
            setup_ops>>

irVars == <<ir_pc, idle_polls, rx_polls, rx_entered>>

clkVars == <<sync_time_, millis, elapsed>>

numVars == <<rssi_raw, rssi_dbm, rssi_pc, frequency_mhz_, freq_ops, freq_pc,
             loop_counter>>

vars == <<decVars, encVars, qVars, rxVars, suVars, irVars, clkVars, numVars>>

--------------------------------------------------------------------------
(* Bounds of the model.                                                    *)

\* longest decode3of6 input, in bytes
MaxCodedLen == 6

\* largest decoded length given to encoded_size
MaxDecodedLen == 64

\* number of frames the receiver completes in one run
MaxPackets == 4

\* number of frame handlers registered in one run
MaxHandlers == 2

\* bytes a transmission puts on the air after its sync word
MaxAir == 70

\* milliseconds between two readings of the clock
TickMs == 25

\* most bytes in the RX FIFO when wait_for_data_ reads the header
MaxFill == 10

--------------------------------------------------------------------------
(* uint8_t arithmetic.                                                     *)

\* 2^n for the shift counts 0..8 the code uses
Pow2(n) == <<1, 2, 4, 8, 16, 32, 64, 128, 256>>[n + 1]

\* (uint8_t)(x << n)
Shl8(x, n) == (x * Pow2(n)) % 256

\* x >> n
Shr(x, n) == x \div Pow2(n)

\* a | b, bit by bit
RECURSIVE BitOr(_, _)
BitOr(a, b) ==
    IF a = 0 THEN b
    ELSE IF b = 0 THEN a
    ELSE (IF (a % 2 = 1) \/ (b % 2 = 1) THEN 1 ELSE 0)
         + 2 * BitOr(a \div 2, b \div 2)

--------------------------------------------------------------------------
(* decode3of6.cpp                                                          *)

\* the table with one more code, 0b000111, given to nibble 0
lookupTable_Extra ==
    (22 :> 0)  @@ (13 :> 1)  @@ (14 :> 2)  @@ (11 :> 3)  @@
    (28 :> 4)  @@ (25 :> 5)  @@ (26 :> 6)  @@ (19 :> 7)  @@
    (44 :> 8)  @@ (37 :> 9)  @@ (38 :> 10) @@ (35 :> 11) @@
    (52 :> 12) @@ (49 :> 13) @@ (50 :> 14) @@ (41 :> 15) @@ (7 :> 0)

\* static const std::map<uint8_t, uint8_t> lookupTable
lookupTable ==
    (22 :> 0)  @@ (13 :> 1)  @@ (14 :> 2)  @@ (11 :> 3)  @@
    (28 :> 4)  @@ (25 :> 5)  @@ (26 :> 6)  @@ (19 :> 7)  @@
    (44 :> 8)  @@ (37 :> 9)  @@ (38 :> 10) @@ (35 :> 11) @@
    (52 :> 12) @@ (49 :> 13) @@ (50 :> 14) @@ (41 :> 15)

\* the result of decode3of6: an optional vector, with the reason of an
\* empty result kept for the log line the code prints
DecodeFail(why) == [ok |-> FALSE, bytes |-> <<>>, err |-> why]
DecodeOk(bytes) == [ok |-> TRUE, bytes |-> bytes, err |-> "none"]

\* the segment count rounded up instead of down
Segments_RoundUp(coded) == (Len(coded) * 8 + 5) \div 6

\* auto segments = coded_data.size() * 8 / 6
Segments(coded) == (Len(coded) * 8) \div 6

\* the 6-bit code of segment i (0-based), as the loop body computes it;
\* data[k] of the code is coded[k + 1] here
SegmentCode(coded, i) ==
    LET bit_idx    == i * 6
        byte_idx   == bit_idx \div 8
        bit_offset == bit_idx % 8
        first      == Shl8(coded[byte_idx + 1], bit_offset)
        code       == IF bit_offset > 0
                      THEN BitOr(first, Shr(coded[byte_idx + 2], 8 - bit_offset))
                      ELSE first
    IN  Shr(code, 2)

\* if (i % 2 == 0) push_back(nibble << 4) else back() |= nibble
PutNibble(decodedBytes, i, nibble) ==
    IF i % 2 = 0
    THEN Append(decodedBytes, Shl8(nibble, 4))
    ELSE [decodedBytes EXCEPT ![Len(decodedBytes)] = BitOr(@, nibble)]

\* the for loop returning what it has decoded when it fails
RECURSIVE DecodeLoop_Partial(_, _, _)
DecodeLoop_Partial(coded, i, decodedBytes) ==
    LET bit_idx    == i * 6
        byte_idx   == bit_idx \div 8
        bit_offset == bit_idx % 8
        partial(why) == [ok |-> FALSE, bytes |-> decodedBytes, err |-> why]
    IN  IF i >= Segments(coded) THEN DecodeOk(decodedBytes)
        ELSE IF byte_idx >= Len(coded) THEN partial("underrun")
        ELSE IF bit_offset > 0 /\ byte_idx + 1 >= Len(coded)
             THEN partial("underrun")
        ELSE LET code == SegmentCode(coded, i)
             IN  IF code \notin DOMAIN lookupTable
                 THEN partial("invalid")
                 ELSE DecodeLoop_Partial(coded, i + 1,
                                 PutNibble(decodedBytes, i, lookupTable[code]))

\* the for loop of decode3of6 from segment i on, decodedBytes so far
RECURSIVE DecodeLoop(_, _, _)
DecodeLoop(coded, i, decodedBytes) ==
    LET bit_idx    == i * 6
        byte_idx   == bit_idx \div 8
        bit_offset == bit_idx % 8
    IN  IF i >= Segments(coded) THEN DecodeOk(decodedBytes)
        ELSE IF byte_idx >= Len(coded) THEN DecodeFail("underrun")
        ELSE IF bit_offset > 0 /\ byte_idx + 1 >= Len(coded)
             THEN DecodeFail("underrun")
        ELSE LET code == SegmentCode(coded, i)
             IN  IF code \notin DOMAIN lookupTable
                 THEN DecodeFail("invalid")
                 ELSE DecodeLoop(coded, i + 1,
                                 PutNibble(decodedBytes, i, lookupTable[code]))

decode3of6(coded) == DecodeLoop(coded, 0, <<>>)

\* decode3of6 not called
DecIdle ==
    /\ coded_data = <<>>
    /\ decoded = DecodeFail("none")
    /\ dec_pc = "off"

\* encoded_size without the rounding up
encoded_size_Floor(decoded_size) == (3 * decoded_size) \div 2

\* size_t encoded_size(size_t decoded_size)
encoded_size(decoded_size) == (3 * decoded_size + 1) \div 2

\* encoded_size not called
EncIdle ==
    /\ enc_n = 0
    /\ enc_out = 0
    /\ enc_pc = "off"

--------------------------------------------------------------------------
(* transceiver_cc1101.h: constants of the receive state machine.           *)

WMBUS_MODE_C_PREAMBLE == 84
WMBUS_BLOCK_A_PREAMBLE == 205
WMBUS_BLOCK_B_PREAMBLE == 61
RX_FIFO_THRESHOLD == 10
MAX_FIXED_LENGTH == 256
MAX_FRAME_SIZE == 512

\* uint32_t max_wait_time_{50}
max_wait_time_ == 50

\* size_t is unsigned: a - b with a < b wraps to 2^32 - (b - a).  The
\* model checker's integers end at 2^31 - 1, so the wrapped difference is
\* kept as SizeTWrap - (b - a); like the true value it exceeds every
\* other byte count of the model (none is above MAX_FRAME_SIZE + 64)
SizeTWrap == 2147483647
SizeTSub(a, b) == IF a >= b THEN a - b ELSE SizeTWrap - (b - a)

\* the RX FIFO of the CC1101 holds 64 bytes
FifoSize == 64

\* mode_t_packet_size with the CRC blocks rounded down
mode_t_packet_size_Floor(l_field) ==
    l_field + (l_field \div 16) * 2 + 1

\* static size_t mode_t_packet_size(uint8_t l_field)
mode_t_packet_size(l_field) ==
    LET data_bytes == l_field
        crc_bytes  == ((data_bytes + 15) \div 16) * 2
    IN  data_bytes + crc_bytes + 1

--------------------------------------------------------------------------
(* The CC1101 as the state machine sees it through the bus and the pins.   *)

\* the headers a transmission can begin with: the first four bytes the
\* chip puts into the FIFO after the sync word
Headers ==
    << <<58, 68, 46, 12>>,       \* bare header, L-field 58
       <<0, 68, 46, 12>>,        \* bare header, L-field 0
       <<84, 205, 10, 68>>,      \* 0x54 0xCD: block A, L-field 10
       <<84, 61, 5, 68>>,        \* 0x54 0x3D: block B, L-field 5
       <<84, 153, 10, 68>> >>    \* 0x54 and an unknown block type

\* byte k (from 1) that transmission t puts into the FIFO
Stream(t, k) == IF k <= 4 THEN t[k] ELSE k % 256

\* number of bytes in the RX FIFO
FifoCount == fifo_wr - fifo_rd

\* the RXBYTES status register: bit 7 is the overflow flag
RxBytesStatus == (IF marc = "RX_OVERFLOW" THEN 128 ELSE 0) + FifoCount

\* GDO0 (IOCFG0 = 0x00): high while the RX FIFO is filled at or above
\* the threshold FIFOTHR selects, 4 * (FIFO_THR + 1) bytes
Gdo0 == FifoCount >= 4 * ((fifothr % 16) + 1)

\* read_rx_fifo(buf, n): the n oldest bytes of the FIFO
FifoBytes(n) == [i \in 1..n |-> Stream(tx, fifo_rd + i)]

\* the chip detects the sync word of a transmission (GDO2 goes high)
HwSync ==
    /\ marc = "RX"
    /\ ~gdo2
    /\ \E t \in 1..Len(Headers) : tx' = Headers[t]
    /\ gdo2' = TRUE
    /\ fifo_rd' = 0
    /\ fifo_wr' = 0
    /\ UNCHANGED <<marc, fifothr, pktlen, pktctrl0, overflowed>>
    /\ UNCHANGED <<drvVars, callVars, since_sync>>

\* the chip puts the next received byte into the FIFO; in fixed length
\* mode the packet ends with byte number PKTLEN and the chip goes idle
HwByte ==
    /\ marc = "RX"
    /\ gdo2
    /\ fifo_wr < MaxAir
    /\ FifoCount < FifoSize
    /\ fifo_wr' = fifo_wr + 1
    /\ IF pktctrl0 = 0 /\ (fifo_wr + 1) % 256 = pktlen
       THEN marc' = "IDLE" /\ gdo2' = FALSE
       ELSE UNCHANGED <<marc, gdo2>>
    /\ UNCHANGED <<fifo_rd, tx, fifothr, pktlen, pktctrl0, overflowed>>
    /\ UNCHANGED <<drvVars, callVars, since_sync>>

\* a byte arrives while the FIFO is full: the byte is lost and the chip
\* enters RXFIFO_OVERFLOW, where it stays until the FIFO is flushed
HwOverflow ==
    /\ marc = "RX"
    /\ gdo2
    /\ fifo_wr < MaxAir
    /\ FifoCount = FifoSize
    /\ marc' = "RX_OVERFLOW"
    /\ gdo2' = FALSE
    /\ overflowed' = (overflowed
                      \/ (/\ rx_state_ \in {"WAIT_FOR_DATA", "READ_DATA"}
                          /\ pc # "rd_final"))
    /\ UNCHANGED <<fifo_rd, fifo_wr, tx, fifothr, pktlen, pktctrl0>>
    /\ UNCHANGED <<drvVars, callVars, since_sync>>

\* TickMs milliseconds pass; millis() - sync_time_ is read in
\* WAIT_FOR_DATA only and compared with max_wait_time_, so it is counted
\* there, and until it is above max_wait_time_.  The milliseconds pass
\* between two invocations of read(), which the receiver task makes 2 ms
\* and more apart; an invocation itself is a handful of bus transactions
\* of microseconds up to the point where it reads the clock
Tick ==
    /\ rx_state_ = "WAIT_FOR_DATA"
    /\ pc = "idle"
    /\ since_sync <= max_wait_time_
    /\ since_sync' = since_sync + TickMs
    /\ UNCHANGED <<hwVars, drvVars, callVars>>

--------------------------------------------------------------------------
(* transceiver_cc1101.cpp: CC1101::read and what it calls.                 *)

NoValue == [has |-> FALSE, value |-> 0]
Value(b) == [has |-> TRUE, value |-> b]

\* what one read() invocation has seen and done so far; trail is the
\* cases of the switch it has evaluated, in order, sync what wait_for_sync_
\* returned to it ("untested" when it was not called), noise_flushed
\* whether it sent SFRX in WAIT_FOR_SYNC
NewCall(ovf) ==
    [ret |-> NoValue, returned |-> FALSE, complete |-> FALSE,
     overflow_seen |-> FALSE, timeout_seen |-> FALSE,
     decode_failed |-> FALSE, diag_forced |-> FALSE, to_init |-> FALSE,
     unknown_block |-> FALSE,
     overflow_at_entry |-> ovf, overflow_at_return |-> FALSE,
     trail |-> <<>>, sync |-> "untested", noise_flushed |-> FALSE]

\* init_rx_ from SFTX to SRX: flush both FIFOs, FIFOTHR = 0, infinite
\* packet length, clear the accumulator, SRX.  The chip drops the
\* transmission it was receiving (the byte positions start again) and no
\* sync time is pending
InitRxConfigure ==
    /\ gdo2' = FALSE
    /\ fifo_rd' = 0
    /\ fifo_wr' = 0
    /\ tx' = <<>>
    /\ fifothr' = 0
    /\ pktctrl0' = 2
    /\ overflowed' = FALSE
    /\ since_sync' = 0
    /\ rx_buffer_' = <<>>
    /\ bytes_received_' = 0
    /\ expected_length_' = 0
    /\ length_field_' = 0
    /\ length_mode_' = "INFINITE"
    /\ wmbus_mode_' = "UNKNOWN"
    /\ wmbus_block_' = "UNKNOWN"
    /\ UNCHANGED pktlen

\* init_rx_ as one step, against a chip that enters RX when it is told
\* to: set_idle_, InitRxConfigure, the wait for the RX state,
\* rx_state_ = WAIT_FOR_SYNC
init_rx_ ==
    /\ marc' = "RX"
    /\ InitRxConfigure
    /\ rx_state_' = "WAIT_FOR_SYNC"

\* the header classification storing a bare header as it came
ClassifyHeader_Verbatim(header) ==
    IF header[1] = WMBUS_MODE_C_PREAMBLE
    THEN IF header[2] = WMBUS_BLOCK_A_PREAMBLE
         THEN [known |-> TRUE, mode |-> "C", block |-> "A",
               length_field |-> header[3],
               expected_length |-> 2 + mode_t_packet_size(header[3]),
               buffer |-> <<header[3]>>, bytes_received |-> 1]
         ELSE IF header[2] = WMBUS_BLOCK_B_PREAMBLE
         THEN [known |-> TRUE, mode |-> "C", block |-> "B",
               length_field |-> header[3],
               expected_length |-> 2 + 1 + header[3],
               buffer |-> <<header[3]>>, bytes_received |-> 1]
         ELSE [known |-> FALSE, mode |-> "C", block |-> "UNKNOWN",
               length_field |-> 0, expected_length |-> 0,
               buffer |-> <<>>, bytes_received |-> 0]
    ELSE [known |-> TRUE, mode |-> "C", block |-> "A",
          length_field |-> header[1],
          expected_length |-> 2 + mode_t_packet_size(header[1]),
          buffer |-> header,
          bytes_received |-> 4]

\* the header classification of wait_for_data_
ClassifyHeader(header) ==
    IF header[1] = WMBUS_MODE_C_PREAMBLE
    THEN IF header[2] = WMBUS_BLOCK_A_PREAMBLE
         THEN [known |-> TRUE, mode |-> "C", block |-> "A",
               length_field |-> header[3],
               expected_length |-> 2 + mode_t_packet_size(header[3]),
               buffer |-> <<header[3]>>, bytes_received |-> 1]
         ELSE IF header[2] = WMBUS_BLOCK_B_PREAMBLE
         THEN [known |-> TRUE, mode |-> "C", block |-> "B",
               length_field |-> header[3],
               expected_length |-> 2 + 1 + header[3],
               buffer |-> <<header[3]>>, bytes_received |-> 1]
         ELSE [known |-> FALSE, mode |-> "C", block |-> "UNKNOWN",
               length_field |-> 0, expected_length |-> 0,
               buffer |-> <<>>, bytes_received |-> 0]
    ELSE [known |-> TRUE, mode |-> "C", block |-> "A",
          length_field |-> header[1],
          expected_length |-> 2 + mode_t_packet_size(header[1]),
          buffer |-> <<WMBUS_MODE_C_PREAMBLE, WMBUS_BLOCK_A_PREAMBLE>>
                     \o header,
          bytes_received |-> 6]

Min(a, b) == IF a < b THEN a ELSE b

\* read_data_ taking whatever the FIFO holds
BytesToRead_Greedy(bytes_in_fifo, bytes_remaining) ==
    bytes_in_fifo

\* the number of bytes read_data_ decides to read, before the min with
\* bytes_remaining
BytesToRead(bytes_in_fifo, bytes_remaining) ==
    IF bytes_in_fifo > 48 THEN bytes_in_fifo
    ELSE IF bytes_remaining <= bytes_in_fifo THEN bytes_remaining
    ELSE IF bytes_in_fifo > 1 THEN bytes_in_fifo - 1 ELSE 0

\* read() returns: v is the value, log the record of the invocation; the
\* locals of the call are gone
Return(v, log) ==
    /\ pc' = "idle"
    /\ inv' = [log EXCEPT !.ret = v, !.returned = TRUE,
                          !.overflow_at_return = overflowed]
    /\ n_read' = 0

\* read() is entered: the periodic diagnostics, then the switch on
\* rx_state_ up to its first access to the chip
ReadEnter ==
    /\ pc = "idle"
    /\ \E diag_due \in BOOLEAN :
          LET forced == diag_due /\ marc = "RX_OVERFLOW"
              state  == IF forced THEN "INIT_RX" ELSE rx_state_
              log    == [NewCall(overflowed /\ rx_state_ # "INIT_RX")
                            EXCEPT !.overflow_seen = forced,
                                   !.diag_forced = forced,
                                   !.to_init = (state = "INIT_RX"),
                                   !.trail = <<state>>]
          IN  CASE state = "INIT_RX" ->
                     /\ init_rx_
                     /\ Return(NoValue, log)
                [] state = "WAIT_FOR_SYNC" ->
                     /\ pc' = "ws_status"
                     /\ inv' = log
                     /\ UNCHANGED <<hwVars, drvVars, n_read, since_sync>>
                [] state = "WAIT_FOR_DATA" ->
                     /\ pc' = "wd_timeout"
                     /\ inv' = log
                     /\ UNCHANGED <<hwVars, drvVars, n_read, since_sync>>
                [] state = "READ_DATA" ->
                     /\ pc' = "rd_top"
                     /\ inv' = log
                     /\ UNCHANGED <<hwVars, drvVars, n_read, since_sync>>

\* WAIT_FOR_SYNC: read RXBYTES; overflow aborts, more than 32 bytes are
\* taken for noise
WaitSyncStatus ==
    /\ pc = "ws_status"
    /\ LET rxbytes_status == RxBytesStatus
       IN  IF rxbytes_status >= 128
           THEN /\ rx_state_' = "INIT_RX"
                /\ Return(NoValue, [inv EXCEPT !.overflow_seen = TRUE,
                                               !.to_init = TRUE])
                /\ UNCHANGED <<rx_buffer_, bytes_received_, expected_length_,
                               length_field_, length_mode_, wmbus_mode_,
                               wmbus_block_>>
           ELSE /\ pc' = IF rxbytes_status % 128 > 32 THEN "ws_flush"
                         ELSE "ws_sync"
                /\ UNCHANGED <<drvVars, n_read, inv>>
    /\ UNCHANGED <<hwVars, since_sync>>

\* WAIT_FOR_SYNC: the SFRX strobe; it empties the FIFO, and takes the chip
\* from RXFIFO_OVERFLOW to IDLE
WaitSyncFlush ==
    /\ pc = "ws_flush"
    /\ fifo_rd' = fifo_wr
    /\ marc' = IF marc = "RX_OVERFLOW" THEN "IDLE" ELSE marc
    /\ pc' = "ws_sync"
    /\ inv' = [inv EXCEPT !.noise_flushed = TRUE]
    /\ UNCHANGED <<gdo2, fifo_wr, tx, fifothr, pktlen, pktctrl0, overflowed>>
    /\ UNCHANGED <<drvVars, n_read, since_sync>>

\* WAIT_FOR_SYNC returning to the caller when it has seen the sync word
WaitSyncPin_NoFallThrough ==
    /\ pc = "ws_sync"
    /\ IF gdo2
       THEN /\ rx_state_' = "WAIT_FOR_DATA"
            /\ since_sync' = 0
            /\ Return(NoValue, [inv EXCEPT !.sync = "high"])
       ELSE /\ Return(NoValue, [inv EXCEPT !.sync = "low"])
            /\ UNCHANGED <<rx_state_, since_sync>>
    /\ UNCHANGED <<rx_buffer_, bytes_received_, expected_length_,
                   length_field_, length_mode_, wmbus_mode_, wmbus_block_>>
    /\ UNCHANGED hwVars

\* WAIT_FOR_SYNC: wait_for_sync_ reads GDO2; on sync sync_time_ = millis()
\* and the code falls through to WAIT_FOR_DATA
WaitSyncPin ==
    /\ pc = "ws_sync"
    /\ IF gdo2
       THEN /\ rx_state_' = "WAIT_FOR_DATA"
            /\ since_sync' = 0
            /\ pc' = "wd_timeout"
            /\ inv' = [inv EXCEPT !.sync = "high",
                                  !.trail = Append(@, "WAIT_FOR_DATA")]
            /\ UNCHANGED n_read
       ELSE /\ Return(NoValue, [inv EXCEPT !.sync = "low"])
            /\ UNCHANGED <<rx_state_, since_sync>>
    /\ UNCHANGED <<rx_buffer_, bytes_received_, expected_length_,
                   length_field_, length_mode_, wmbus_mode_, wmbus_block_>>
    /\ UNCHANGED hwVars

\* WAIT_FOR_DATA with the timeout seen but not acted upon
WaitDataTimeout_Ignored ==
    /\ pc = "wd_timeout"
    /\ pc' = "wd_gdo0"
    /\ inv' = [inv EXCEPT !.timeout_seen = since_sync > max_wait_time_]
    /\ UNCHANGED <<drvVars, n_read>>
    /\ UNCHANGED <<hwVars, since_sync>>

\* WAIT_FOR_DATA: millis() - sync_time_ > max_wait_time_ aborts
WaitDataTimeout ==
    /\ pc = "wd_timeout"
    /\ IF since_sync > max_wait_time_
       THEN /\ rx_state_' = "INIT_RX"
            /\ Return(NoValue, [inv EXCEPT !.timeout_seen = TRUE,
                                           !.to_init = TRUE])
       ELSE /\ pc' = "wd_gdo0"
            /\ UNCHANGED <<rx_state_, n_read, inv>>
    /\ UNCHANGED <<rx_buffer_, bytes_received_, expected_length_,
                   length_field_, length_mode_, wmbus_mode_, wmbus_block_>>
    /\ UNCHANGED <<hwVars, since_sync>>

\* wait_for_data_: read GDO0
WaitDataPin ==
    /\ pc = "wd_gdo0"
    /\ IF Gdo0
       THEN /\ pc' = "wd_ovf"
            /\ UNCHANGED <<n_read, inv>>
       ELSE Return(NoValue, inv)
    /\ UNCHANGED <<hwVars, drvVars, since_sync>>

\* wait_for_data_: check_rx_overflow_
WaitDataOverflow ==
    /\ pc = "wd_ovf"
    /\ IF RxBytesStatus >= 128
       THEN /\ rx_state_' = "INIT_RX"
            /\ Return(NoValue, [inv EXCEPT !.overflow_seen = TRUE,
                                           !.to_init = TRUE])
       ELSE /\ pc' = "wd_header"
            /\ UNCHANGED <<rx_state_, n_read, inv>>
    /\ UNCHANGED <<rx_buffer_, bytes_received_, expected_length_,
                   length_field_, length_mode_, wmbus_mode_, wmbus_block_>>
    /\ UNCHANGED <<hwVars, since_sync>>

\* wait_for_data_: read the 4 header bytes and classify the frame; an
\* unknown block type returns false and read() returns in WAIT_FOR_DATA
WaitDataHeader ==
    /\ pc = "wd_header"
    /\ LET c == ClassifyHeader(FifoBytes(4))
       IN  /\ fifo_rd' = fifo_rd + 4
           /\ wmbus_mode_' = c.mode
           /\ IF c.known
              THEN /\ wmbus_block_' = c.block
                   /\ length_field_' = c.length_field
                   /\ expected_length_' = c.expected_length
                   /\ rx_buffer_' = rx_buffer_ \o c.buffer
                   /\ bytes_received_' = c.bytes_received
                   /\ pc' = "wd_config"
                   /\ UNCHANGED <<n_read, inv>>
              ELSE /\ Return(NoValue, [inv EXCEPT !.unknown_block = TRUE])
                   /\ UNCHANGED <<wmbus_block_, length_field_,
                                  expected_length_, rx_buffer_,
                                  bytes_received_>>
    /\ UNCHANGED <<marc, gdo2, fifo_wr, tx, fifothr, pktlen, pktctrl0,
                   overflowed>>
    /\ UNCHANGED <<rx_state_, length_mode_, since_sync>>

\* wait_for_data_ switching to fixed length mode for every frame the
\* accumulator can hold, the length cast to uint8_t
WaitDataConfig_AnyLength ==
    /\ pc = "wd_config"
    /\ IF expected_length_ < MAX_FRAME_SIZE
       THEN /\ pktlen' = expected_length_ % 256
            /\ pktctrl0' = 0
            /\ length_mode_' = "FIXED"
       ELSE UNCHANGED <<pktlen, pktctrl0, length_mode_>>
    /\ fifothr' = RX_FIFO_THRESHOLD
    /\ pc' = "wd_drain"
    /\ UNCHANGED <<marc, gdo2, fifo_rd, fifo_wr, tx, overflowed>>
    /\ UNCHANGED <<rx_state_, rx_buffer_, bytes_received_, expected_length_,
                   length_field_, wmbus_mode_, wmbus_block_>>
    /\ UNCHANGED <<n_read, inv, since_sync>>

\* wait_for_data_: fixed length mode if the frame fits, then the FIFO
\* threshold for the rest of the frame
WaitDataConfig ==
    /\ pc = "wd_config"
    /\ IF expected_length_ < MAX_FIXED_LENGTH
       THEN /\ pktlen' = expected_length_ % 256
            /\ pktctrl0' = 0
            /\ length_mode_' = "FIXED"
       ELSE UNCHANGED <<pktlen, pktctrl0, length_mode_>>
    /\ fifothr' = RX_FIFO_THRESHOLD
    /\ pc' = "wd_drain"
    /\ UNCHANGED <<marc, gdo2, fifo_rd, fifo_wr, tx, overflowed>>
    /\ UNCHANGED <<rx_state_, rx_buffer_, bytes_received_, expected_length_,
                   length_field_, wmbus_mode_, wmbus_block_>>
    /\ UNCHANGED <<n_read, inv, since_sync>>

\* wait_for_data_: read RXBYTES and decide how much to drain; with nothing
\* to drain it returns true, rx_state_ = READ_DATA and the loop begins
WaitDataDrainStatus ==
    /\ pc = "wd_drain"
    /\ LET bytes_in_fifo   == RxBytesStatus % 128
           bytes_remaining == SizeTSub(expected_length_, bytes_received_)
           bytes_to_read   == Min(bytes_in_fifo, bytes_remaining)
       IN  IF bytes_in_fifo > 0 /\ bytes_to_read > 0
           THEN /\ n_read' = bytes_to_read
                /\ pc' = "wd_drain_read"
                /\ UNCHANGED <<rx_state_, since_sync>>
                /\ UNCHANGED inv
           ELSE /\ n_read' = 0
                /\ rx_state_' = "READ_DATA"
                /\ since_sync' = 0
                /\ pc' = "rd_top"
                /\ inv' = [inv EXCEPT !.trail = Append(@, "READ_DATA")]
    /\ UNCHANGED <<rx_buffer_, bytes_received_, expected_length_,
                   length_field_, length_mode_, wmbus_mode_, wmbus_block_>>
    /\ UNCHANGED hwVars

\* wait_for_data_: drain; it returns true, rx_state_ = READ_DATA
WaitDataDrainRead ==
    /\ pc = "wd_drain_read"
    /\ rx_buffer_' = rx_buffer_ \o FifoBytes(n_read)
    /\ fifo_rd' = fifo_rd + n_read
    /\ bytes_received_' = bytes_received_ + n_read
    /\ rx_state_' = "READ_DATA"
    /\ since_sync' = 0
    /\ pc' = "rd_top"
    /\ UNCHANGED <<marc, gdo2, fifo_wr, tx, fifothr, pktlen, pktctrl0,
                   overflowed>>
    /\ UNCHANGED <<expected_length_, length_field_, length_mode_,
                   wmbus_mode_, wmbus_block_>>
    /\ n_read' = 0
    /\ inv' = [inv EXCEPT !.trail = Append(@, "READ_DATA")]

\* READ_DATA loop: read_data_ begins with check_rx_overflow_; on overflow
\* it returns false with no byte read, and the loop breaks
ReadDataOverflow ==
    /\ pc = "rd_top"
    /\ IF RxBytesStatus >= 128
       THEN /\ rx_state_' = "INIT_RX"
            /\ Return(NoValue, [inv EXCEPT !.overflow_seen = TRUE,
                                           !.to_init = TRUE])
       ELSE /\ pc' = "rd_status"
            /\ UNCHANGED <<rx_state_, n_read, inv>>
    /\ UNCHANGED <<rx_buffer_, bytes_received_, expected_length_,
                   length_field_, length_mode_, wmbus_mode_, wmbus_block_>>
    /\ UNCHANGED <<hwVars, since_sync>>

\* read_data_ in a loop that goes round although no byte was read
ReadDataStatus_Spin ==
    /\ pc = "rd_status"
    /\ LET bytes_in_fifo   == RxBytesStatus % 128
           bytes_remaining == SizeTSub(expected_length_, bytes_received_)
           bytes_to_read   == IF bytes_in_fifo > 0
                              THEN Min(BytesToRead(bytes_in_fifo,
                                                   bytes_remaining),
                                       bytes_remaining)
                              ELSE 0
       IN  IF bytes_to_read > 0
           THEN IF Len(rx_buffer_) + bytes_to_read > MAX_FRAME_SIZE
                THEN \* "Frame too large": false, no progress, break
                     /\ Return(NoValue, inv)
                ELSE /\ n_read' = bytes_to_read
                     /\ pc' = "rd_read"
                     /\ UNCHANGED inv
           ELSE IF bytes_received_ >= expected_length_
                THEN /\ n_read' = 0
                     /\ pc' = "rd_final"
                     /\ UNCHANGED inv
                ELSE /\ n_read' = 0
                     /\ pc' = "rd_top"
                     /\ UNCHANGED inv
    /\ UNCHANGED <<hwVars, drvVars, since_sync>>

\* read_data_: read RXBYTES and decide how much to read
ReadDataStatus ==
    /\ pc = "rd_status"
    /\ LET bytes_in_fifo   == RxBytesStatus % 128
           bytes_remaining == SizeTSub(expected_length_, bytes_received_)
           bytes_to_read   == IF bytes_in_fifo > 0
                              THEN Min(BytesToRead(bytes_in_fifo,
                                                   bytes_remaining),
                                       bytes_remaining)
                              ELSE 0
       IN  IF bytes_to_read > 0
           THEN IF Len(rx_buffer_) + bytes_to_read > MAX_FRAME_SIZE
                THEN \* "Frame too large": false, no progress, break
                     /\ Return(NoValue, inv)
                ELSE /\ n_read' = bytes_to_read
                     /\ pc' = "rd_read"
                     /\ UNCHANGED inv
           ELSE IF bytes_received_ >= expected_length_
                THEN /\ n_read' = 0
                     /\ pc' = "rd_final"
                     /\ UNCHANGED inv
                ELSE \* false, no progress, break
                     Return(NoValue, inv)
    /\ UNCHANGED <<hwVars, drvVars, since_sync>>

\* read_data_ reading the bytes without counting them
ReadDataRead_Uncounted ==
    /\ pc = "rd_read"
    /\ rx_buffer_' = rx_buffer_ \o FifoBytes(n_read)
    /\ fifo_rd' = fifo_rd + n_read
    /\ bytes_received_' = bytes_received_
    /\ pc' = IF bytes_received_ + n_read >= expected_length_
             THEN "rd_final" ELSE "rd_top"
    /\ UNCHANGED <<marc, gdo2, fifo_wr, tx, fifothr, pktlen, pktctrl0,
                   overflowed>>
    /\ UNCHANGED <<rx_state_, expected_length_, length_field_, length_mode_,
                   wmbus_mode_, wmbus_block_>>
    /\ n_read' = 0
    /\ UNCHANGED <<inv, since_sync>>

\* read_data_: read the bytes; an incomplete frame returns false, and as
\* bytes were read the loop goes round
ReadDataRead ==
    /\ pc = "rd_read"
    /\ rx_buffer_' = rx_buffer_ \o FifoBytes(n_read)
    /\ fifo_rd' = fifo_rd + n_read
    /\ bytes_received_' = bytes_received_ + n_read
    /\ pc' = IF bytes_received_ + n_read >= expected_length_
             THEN "rd_final" ELSE "rd_top"
    /\ UNCHANGED <<marc, gdo2, fifo_wr, tx, fifothr, pktlen, pktctrl0,
                   overflowed>>
    /\ UNCHANGED <<rx_state_, expected_length_, length_field_, length_mode_,
                   wmbus_mode_, wmbus_block_>>
    /\ n_read' = 0
    /\ UNCHANGED <<inv, since_sync>>

\* the frame is complete in read(): decode 3-of-6 for Mode T, then
\* rx_state_ = INIT_RX and the first byte of the buffer is returned
FrameComplete(buffer, log) ==
    LET done == [log EXCEPT !.complete = TRUE]
    IN  IF wmbus_mode_ = "T"
        THEN LET d == decode3of6(buffer)
             IN  IF ~d.ok
                 THEN /\ rx_buffer_' = buffer
                      /\ Return(NoValue, [done EXCEPT !.decode_failed = TRUE,
                                                      !.to_init = TRUE])
                 ELSE /\ rx_buffer_' = d.bytes
                      /\ Return(IF d.bytes # <<>> THEN Value(d.bytes[1])
                                ELSE NoValue,
                                [done EXCEPT !.to_init = TRUE])
        ELSE /\ rx_buffer_' = buffer
             /\ Return(IF buffer # <<>> THEN Value(buffer[1]) ELSE NoValue,
                       [done EXCEPT !.to_init = TRUE])

\* read_data_: the frame is complete; read RXBYTES once more, take what
\* is left in the FIFO, return true
ReadDataFinal ==
    /\ pc = "rd_final"
    /\ LET bytes_in_fifo == RxBytesStatus % 128
       IN  /\ fifo_rd' = fifo_rd + bytes_in_fifo
           /\ FrameComplete(rx_buffer_ \o FifoBytes(bytes_in_fifo), inv)
    /\ rx_state_' = "INIT_RX"
    /\ UNCHANGED <<marc, gdo2, fifo_wr, tx, fifothr, pktlen, pktctrl0,
                   overflowed>>
    /\ UNCHANGED <<bytes_received_, expected_length_, length_field_,
                   length_mode_, wmbus_mode_, wmbus_block_, since_sync>>

\* the members as the class initialises them, the chip idle after reset
InitRx ==
    /\ marc = "IDLE"
    /\ gdo2 = FALSE
    /\ fifo_rd = 0
    /\ fifo_wr = 0
    /\ tx = <<>>
    /\ fifothr = 7
    /\ pktlen = 255
    /\ pktctrl0 = 0
    /\ overflowed = FALSE
    /\ rx_state_ = "INIT_RX"
    /\ rx_buffer_ = <<>>
    /\ bytes_received_ = 0
    /\ expected_length_ = 0
    /\ length_field_ = 0
    /\ length_mode_ = "INFINITE"
    /\ wmbus_mode_ = "UNKNOWN"
    /\ wmbus_block_ = "UNKNOWN"
    /\ since_sync = 0
    /\ pc = "idle"
    /\ n_read = 0
    /\ inv = NewCall(FALSE)

\* the setup sequence is not part of the specification: the transceiver is
\* taken as set up
SuIdle ==
    /\ version = 20
    /\ custom_frequency = FALSE
    /\ su_pc = "off"
    /\ cc_failed = FALSE
    /\ radio_failed = FALSE
    /\ setup_ops = <<>>

\* init_rx_ is taken whole (the definition init_rx_), not poll by poll
IrIdle ==
    /\ ir_pc = "off"
    /\ idle_polls = 0
    /\ rx_polls = 0
    /\ rx_entered = FALSE

\* the clock is not read as a 32-bit value: since_sync stands for the
\* difference
ClkIdle ==
    /\ sync_time_ = <<0, 0>>
    /\ millis = <<0, 0>>
    /\ elapsed = 0

\* get_rssi and set_carrier_frequency are not called
NumIdle ==
    /\ rssi_raw = 0
    /\ rssi_dbm = 0
    /\ rssi_pc = "off"
    /\ frequency_mhz_ = 86895
    /\ freq_ops = <<>>
    /\ freq_pc = "off"
    /\ loop_counter = 0

--------------------------------------------------------------------------
(* component.cpp: the handoff queue.                                       *)

\* xQueueCreate(3, sizeof(Packet *))
QueueLength == 3

\* mutant of xQueueSend: a full queue makes room by dropping its oldest item
xQueueSend_Overwrite(queue, item, ticksToWait) ==
    IF Len(queue) < QueueLength
    THEN [status |-> "pdTRUE", queue |-> Append(queue, item)]
    ELSE [status |-> "pdTRUE", queue |-> Append(Tail(queue), item)]

\* mutant of xQueueSend: the call waits for room however long it takes
xQueueSend_Blocking(queue, item, ticksToWait) ==
    IF Len(queue) < QueueLength
    THEN [status |-> "pdTRUE", queue |-> Append(queue, item)]
    ELSE [status |-> "blocked", queue |-> queue]

\* xQueueSend(queue, &item, ticksToWait): with no room the call waits
\* ticksToWait ticks for room and then gives up; with 0 ticks it never waits
xQueueSend(queue, item, ticksToWait) ==
    IF Len(queue) < QueueLength
    THEN [status |-> "pdTRUE", queue |-> Append(queue, item)]
    ELSE IF ticksToWait = 0
         THEN [status |-> "errQUEUE_FULL", queue |-> queue]
         ELSE [status |-> "blocked", queue |-> queue]

\* mutant of xQueueReceive: the newest item is taken
xQueueReceive_Newest(queue) ==
    IF Len(queue) = 0
    THEN [status |-> "errQUEUE_EMPTY", item |-> 0, queue |-> queue]
    ELSE [status |-> "pdPASS", item |-> queue[Len(queue)],
          queue |-> SubSeq(queue, 1, Len(queue) - 1)]

\* mutant of xQueueReceive: the oldest item is read and left in the queue
xQueueReceive_Peek(queue) ==
    IF Len(queue) = 0
    THEN [status |-> "errQUEUE_EMPTY", item |-> 0, queue |-> queue]
    ELSE [status |-> "pdPASS", item |-> Head(queue), queue |-> queue]

\* xQueueReceive(queue, &p, 0): the oldest item, or failure at once
xQueueReceive(queue) ==
    IF Len(queue) = 0
    THEN [status |-> "errQUEUE_EMPTY", item |-> 0, queue |-> queue]
    ELSE [status |-> "pdPASS", item |-> Head(queue), queue |-> Tail(queue)]

--------------------------------------------------------------------------
(* component.cpp: Radio::receive_frame, run for ever by receiver_task.     *)

\* uint32_t timeout_ms = use_interrupt ? 60000 : 2
TimeoutMs(irq) == IF irq THEN 60000 ELSE 2

\* receive_frame going on to read after the wait has timed out, whatever
\* the radio
ReceiveSteps_ReadOnTimeout(irq, taken, r1, sz, r2) ==
    IF ~r1
    THEN [reads |-> 1, read1 |-> FALSE, read2 |-> FALSE, rssi |-> FALSE,
          reached_send |-> FALSE]
    ELSE IF ~sz
    THEN [reads |-> 1, read1 |-> TRUE, read2 |-> FALSE, rssi |-> FALSE,
          reached_send |-> FALSE]
    ELSE IF ~r2
    THEN [reads |-> 2, read1 |-> TRUE, read2 |-> FALSE, rssi |-> FALSE,
          reached_send |-> FALSE]
    ELSE [reads |-> 2, read1 |-> TRUE, read2 |-> TRUE, rssi |-> TRUE,
          reached_send |-> TRUE]

\* the part of receive_frame from the notification wait to set_rssi:
\* taken is what ulTaskNotifyTake returned, r1 and r2 what the two
\* read_in_task calls return, sz what calculate_payload_size returns
ReceiveSteps(irq, taken, r1, sz, r2) ==
    IF ~taken /\ irq
    THEN [reads |-> 0, read1 |-> FALSE, read2 |-> FALSE, rssi |-> FALSE,
          reached_send |-> FALSE]
    ELSE IF ~r1
    THEN [reads |-> 1, read1 |-> FALSE, read2 |-> FALSE, rssi |-> FALSE,
          reached_send |-> FALSE]
    ELSE IF ~sz
    THEN [reads |-> 1, read1 |-> TRUE, read2 |-> FALSE, rssi |-> FALSE,
          reached_send |-> FALSE]
    ELSE IF ~r2
    THEN [reads |-> 2, read1 |-> TRUE, read2 |-> FALSE, rssi |-> FALSE,
          reached_send |-> FALSE]
    ELSE [reads |-> 2, read1 |-> TRUE, read2 |-> TRUE, rssi |-> TRUE,
          reached_send |-> TRUE]

\* the packet a receive_frame invocation has not built
NoInfo == [read1 |-> FALSE, read2 |-> FALSE, rssi |-> FALSE]

\* Radio::wakeup_receiver_task_from_isr: attached in setup only when the
\* radio has an interrupt pin; it gives the task notification, nothing else
WakeupReceiverTaskFromIsr ==
    /\ use_interrupt
    /\ ~notify_pending
    /\ notify_pending' = TRUE
    /\ UNCHANGED <<use_interrupt, rx_initialized, rpc, packet, packet_info,
                   created, packet_queue_, handlers_, freed, delivered,
                   calls, send_log, recv_log, tick>>

\* receive_frame up to the xQueueSend call.  A packet that does not get
\* that far is destroyed by the unique_ptr when the function returns; the
\* packets that do are numbered in the order they are completed.
RecvFrame ==
    /\ rpc = "start"
    /\ \E arrived \in {FALSE, use_interrupt}, r1 \in BOOLEAN,
          sz \in BOOLEAN, r2 \in BOOLEAN :
          LET restarted == use_interrupt \/ ~rx_initialized
              taken     == notify_pending \/ arrived
              st        == ReceiveSteps(use_interrupt, taken, r1, sz, r2)
              id        == created + 1
          IN  /\ st.reached_send => created < MaxPackets
              /\ rx_initialized' = (IF restarted /\ ~use_interrupt
                                    THEN TRUE ELSE rx_initialized)
              /\ notify_pending' = FALSE
              /\ recv_log' = [restarted |-> restarted,
                              timeout_ms |-> TimeoutMs(use_interrupt),
                              taken |-> taken, reads |-> st.reads,
                              reached_send |-> st.reached_send,
                              order |->
                                 (IF restarted THEN <<"restart_rx">>
                                  ELSE <<>>)
                                 \o <<"ulTaskNotifyTake">>
                                 \o [i \in 1..st.reads |-> "read_in_task"]]
              /\ IF st.reached_send
                 THEN /\ packet' = id
                      /\ created' = id
                      /\ packet_info' = [packet_info EXCEPT ![id] =
                             [read1 |-> st.read1, read2 |-> st.read2,
                              rssi |-> st.rssi]]
                      /\ rpc' = "send"
                 ELSE /\ rpc' = "start"
                      /\ UNCHANGED <<packet, created, packet_info>>
    /\ UNCHANGED <<use_interrupt, packet_queue_, handlers_, freed, delivered,
                   calls, send_log, tick>>

\* xQueueSend(packet_queue_, &packet_ptr, 0); on failure the function
\* returns and the unique_ptr destroys the packet
RecvSend ==
    /\ rpc = "send"
    /\ LET res == xQueueSend(packet_queue_, packet, 0)
       IN  /\ res.status # "blocked"
           /\ packet_queue_' = res.queue
           /\ send_log' = [pkt |-> packet, pending |-> packet_queue_,
                           status |-> res.status]
           /\ IF res.status = "pdTRUE"
              THEN /\ rpc' = "sent"
                   /\ UNCHANGED <<packet, freed>>
              ELSE /\ rpc' = "start"
                   /\ packet' = 0
                   /\ freed' = [freed EXCEPT ![packet] = @ \cup {"producer"}]
    /\ UNCHANGED <<use_interrupt, rx_initialized, notify_pending, packet_info,
                   created, handlers_, delivered, calls, recv_log, tick>>

\* after a successful send: the log line reads the packet through the
\* unique_ptr (packet->calculate_payload_size()), then packet.release()
RecvRelease ==
    /\ rpc = "sent"
    /\ packet' = 0
    /\ rpc' = "start"
    /\ UNCHANGED <<use_interrupt, rx_initialized, notify_pending, packet_info,
                   created, packet_queue_, handlers_, freed, delivered, calls,
                   send_log, recv_log, tick>>

--------------------------------------------------------------------------
(* component.cpp: Radio::loop and Radio::add_frame_handler.                *)

\* mutant of InvokeHandlers: the handlers are run last registered first
InvokeHandlers_Reversed(hs, p) ==
    [i \in 1..Len(hs) |-> <<p, hs[Len(hs) + 1 - i]>>]

\* for (auto &handler : this->handlers_) handler(&frame.value())
InvokeHandlers(hs, p) == [i \in 1..Len(hs) |-> <<p, hs[i]>>]

\* this->handlers_.push_back(std::move(callback)); a callback is named by
\* its registration number
AddFrameHandler ==
    /\ Len(handlers_) < MaxHandlers
    /\ handlers_' = Append(handlers_, Len(handlers_) + 1)
    /\ UNCHANGED <<use_interrupt, rx_initialized, notify_pending, rpc, packet,
                   packet_info, created, packet_queue_, freed, delivered,
                   calls, send_log, recv_log, tick>>

\* Packet::convert_to_frame consumes the packet it is called on, whether
\* it yields a Frame or not
convert_to_frame(f, p) == [f EXCEPT ![p] = @ \cup {"consumer"}]

\* Radio::loop has not got to the handlers: nothing is logged about them
NoDiag == [handled |-> FALSE, parse_ok |-> FALSE, addresses_empty |-> TRUE,
           log |-> "none"]

\* the else branch of `if (frame->handlers_count())`: a Telegram t is made,
\* t.parseHeader(frame->data()) returns ok and leaves t.addresses empty or
\* not.  With ok and an empty list the short warning is logged; in every
\* other case t.addresses.back() is evaluated, which on an empty vector
\* is undefined: the build logs whatever it finds there or it crashes
DiagLog(ok, empty) ==
    IF ok /\ empty THEN {"no_address"}
    ELSE IF empty THEN {"garbage_address", "crash"}
    ELSE {"address"}

\* what Radio::loop can log after the handlers have run on a frame:
\* handlers_count() is not 0 only if there is a handler to claim it
DiagOutcomes(n_handlers) ==
    {r \in [handled : {TRUE}, parse_ok : {FALSE}, addresses_empty : {TRUE},
            log : {"handled"}] : n_handlers > 0}
    \cup {r \in [handled : {FALSE}, parse_ok : BOOLEAN,
                  addresses_empty : BOOLEAN,
                  log : {"no_address", "garbage_address", "crash",
                         "address"}] :
             r.log \in DiagLog(r.parse_ok, r.addresses_empty)}

\* mutant of LoopTick: the handlers run before the conversion result is
\* looked at
LoopTick_DispatchUnchecked(converted) ==
    LET got   == xQueueReceive(packet_queue_)
        p     == got.item
        made  == IF got.status = "pdPASS"
                 THEN [i \in 1..Len(handlers_) |-> <<p, handlers_[i]>>]
                 ELSE <<>>
    IN  /\ packet_queue_' = got.queue
        /\ calls' = calls \o made
        /\ IF got.status = "pdPASS"
           THEN /\ delivered' = Append(delivered, [pkt |-> p, ok |-> converted])
                /\ freed' = convert_to_frame(freed, p)
           ELSE UNCHANGED <<delivered, freed>>
        /\ \E d \in (IF got.status = "pdPASS" /\ converted
                     THEN DiagOutcomes(Len(handlers_)) ELSE {NoDiag}) :
              tick' = [outcome |-> IF got.status # "pdPASS" THEN "empty"
                                   ELSE IF converted THEN "dispatched"
                                   ELSE "convert_failed",
                       pkt |-> p,
                       pending |-> packet_queue_,
                       after |-> got.queue,
                       handlers_before |-> handlers_,
                       handlers_after |-> handlers_,
                       calls |-> made,
                       diag |-> d]
        /\ UNCHANGED <<use_interrupt, rx_initialized, notify_pending, rpc,
                       packet, packet_info, created, handlers_, send_log,
                       recv_log>>

\* one call of Radio::loop.  converted is the result of
\* p->convert_to_frame(), which consumes the packet either way.  What
\* follows a crash, the restart of the device, is not modelled: the record
\* of the call keeps the outcome.
LoopTick(converted) ==
    LET got   == xQueueReceive(packet_queue_)
        p     == got.item
        made  == IF got.status = "pdPASS" /\ converted
                 THEN InvokeHandlers(handlers_, p) ELSE <<>>
    IN  /\ packet_queue_' = got.queue
        /\ calls' = calls \o made
        /\ IF got.status = "pdPASS"
           THEN /\ delivered' = Append(delivered, [pkt |-> p, ok |-> converted])
                /\ freed' = convert_to_frame(freed, p)
           ELSE UNCHANGED <<delivered, freed>>
        /\ \E d \in (IF got.status = "pdPASS" /\ converted
                     THEN DiagOutcomes(Len(handlers_)) ELSE {NoDiag}) :
              tick' = [outcome |-> IF got.status # "pdPASS" THEN "empty"
                                   ELSE IF converted THEN "dispatched"
                                   ELSE "convert_failed",
                       pkt |-> p,
                       pending |-> packet_queue_,
                       after |-> got.queue,
                       handlers_before |-> handlers_,
                       handlers_after |-> handlers_,
                       calls |-> made,
                       diag |-> d]
        /\ UNCHANGED <<use_interrupt, rx_initialized, notify_pending, rpc,
                       packet, packet_info, created, handlers_, send_log,
                       recv_log>>

Loop == \E converted \in BOOLEAN : LoopTick(converted)

--------------------------------------------------------------------------
(* SpecQ: the receiver task against the consumer loop.                     *)

QIdle ==
    /\ use_interrupt = FALSE
    /\ rx_initialized = FALSE
    /\ notify_pending = FALSE
    /\ rpc = "off"
    /\ packet = 0
    /\ packet_info = [id \in 1..MaxPackets |-> NoInfo]
    /\ created = 0
    /\ packet_queue_ = <<>>
    /\ handlers_ = <<>>
    /\ freed = [id \in 1..MaxPackets |-> {}]
    /\ delivered = <<>>
    /\ calls = <<>>
    /\ send_log = [pkt |-> 0, pending |-> <<>>, status |-> "none"]
    /\ recv_log = [restarted |-> FALSE, timeout_ms |-> 0, taken |-> FALSE,
                   reads |-> 0, reached_send |-> FALSE, order |-> <<>>]
    /\ tick = [outcome |-> "none", pkt |-> 0, pending |-> <<>>,
               after |-> <<>>, handlers_before |-> <<>>,
               handlers_after |-> <<>>, calls |-> <<>>, diag |-> NoDiag]

\* after Radio::setup: the queue created and empty, the receiver task at
\* the top of its first receive_frame
InitQ ==
    /\ use_interrupt \in BOOLEAN
    /\ rx_initialized = FALSE
    /\ notify_pending = FALSE
    /\ rpc = "start"
    /\ packet = 0
    /\ packet_info = [id \in 1..MaxPackets |-> NoInfo]
    /\ created = 0
    /\ packet_queue_ = <<>>
    /\ handlers_ = <<>>
    /\ freed = [id \in 1..MaxPackets |-> {}]
    /\ delivered = <<>>
    /\ calls = <<>>
    /\ send_log = [pkt |-> 0, pending |-> <<>>, status |-> "none"]
    /\ recv_log = [restarted |-> FALSE, timeout_ms |-> 0, taken |-> FALSE,
                   reads |-> 0, reached_send |-> FALSE, order |-> <<>>]
    /\ tick = [outcome |-> "none", pkt |-> 0, pending |-> <<>>,
               after |-> <<>>, handlers_before |-> <<>>,
               handlers_after |-> <<>>, calls |-> <<>>, diag |-> NoDiag]

ReceiverTask == RecvFrame \/ RecvSend \/ RecvRelease

NextQ ==
    \/ (ReceiverTask /\ UNCHANGED <<decVars, encVars, rxVars, suVars, irVars, clkVars, numVars>>)
    \/ (WakeupReceiverTaskFromIsr /\ UNCHANGED <<decVars, encVars, rxVars, suVars, irVars, clkVars, numVars>>)
    \/ (Loop /\ UNCHANGED <<decVars, encVars, rxVars, suVars, irVars, clkVars, numVars>>)
    \/ (AddFrameHandler /\ UNCHANGED <<decVars, encVars, rxVars, suVars, irVars, clkVars, numVars>>)

\* the decoder is not part of this specification
InitSpecQ == InitQ /\ DecIdle /\ EncIdle /\ InitRx /\ SuIdle /\ IrIdle /\ ClkIdle /\ NumIdle

SpecQ == InitSpecQ /\ [][NextQ]_vars

\* the receiver task is a FreeRTOS task of its own: it always gets to run;
\* nothing is assumed of the consumer loop
SpecQFair == SpecQ /\ WF_vars(ReceiverTask /\ UNCHANGED <<decVars, encVars, rxVars, suVars, irVars, clkVars, numVars>>)

--------------------------------------------------------------------------
(* SpecSetup: CC1101::setup, Radio::setup and the receiver task they start. *)

\* version == 0 || version == 0xFF, with only the first test
IdentityFailed_ZeroOnly(v) == v = 0

\* version == 0 || version == 0xFF
IdentityFailed(v) == v = 0 \/ v = 255

\* a bus operation of the log: a command strobe, a status register read,
\* a configuration register write
Strobe(s) == [op |-> "strobe", reg |-> s, val |-> 0]
StatusRead(r) == [op |-> "status", reg |-> r, val |-> 0]
Write(r, v) == [op |-> "write", reg |-> r, val |-> v]

\* constexpr std::array<std::pair<CC1101Register, uint8_t>, 47>
\* CC1101_WMBUS_RF_SETTINGS
CC1101_WMBUS_RF_SETTINGS ==
    << <<"IOCFG2", 6>>,     <<"IOCFG1", 46>>,    <<"IOCFG0", 0>>,
       <<"FIFOTHR", 7>>,    <<"SYNC1", 84>>,     <<"SYNC0", 61>>,
       <<"PKTLEN", 255>>,   <<"PKTCTRL1", 0>>,   <<"PKTCTRL0", 0>>,
       <<"ADDR", 0>>,       <<"CHANNR", 0>>,     <<"FSCTRL1", 8>>,
       <<"FSCTRL0", 0>>,    <<"FREQ2", 33>>,     <<"FREQ1", 107>>,
       <<"FREQ0", 208>>,    <<"MDMCFG4", 92>>,   <<"MDMCFG3", 4>>,
       <<"MDMCFG2", 6>>,    <<"MDMCFG1", 34>>,   <<"MDMCFG0", 248>>,
       <<"DEVIATN", 68>>,   <<"MCSM2", 7>>,      <<"MCSM1", 0>>,
       <<"MCSM0", 24>>,     <<"FOCCFG", 46>>,    <<"BSCFG", 191>>,
       <<"AGCCTRL2", 67>>,  <<"AGCCTRL1", 9>>,   <<"AGCCTRL0", 181>>,
       <<"WOREVT1", 135>>,  <<"WOREVT0", 107>>,  <<"WORCTRL", 251>>,
       <<"FREND1", 182>>,   <<"FREND0", 16>>,    <<"FSCAL3", 234>>,
       <<"FSCAL2", 42>>,    <<"FSCAL1", 0>>,     <<"FSCAL0", 31>>,
       <<"RCCTRL1", 65>>,   <<"RCCTRL0", 0>>,    <<"FSTEST", 89>>,
       <<"PTEST", 127>>,    <<"AGCTEST", 63>>,   <<"TEST2", 129>>,
       <<"TEST1", 53>>,     <<"TEST0", 9>> >>

\* apply_wmbus_rf_settings leaving out the last entry of the table
apply_wmbus_rf_settings_Short ==
    [i \in 1..(Len(CC1101_WMBUS_RF_SETTINGS) - 1) |->
        Write(CC1101_WMBUS_RF_SETTINGS[i][1], CC1101_WMBUS_RF_SETTINGS[i][2])]

\* apply_wmbus_rf_settings: for (const auto &[reg, value] : table)
\* driver.write_register(reg, value)
apply_wmbus_rf_settings ==
    [i \in 1..Len(CC1101_WMBUS_RF_SETTINGS) |->
        Write(CC1101_WMBUS_RF_SETTINGS[i][1], CC1101_WMBUS_RF_SETTINGS[i][2])]

\* static_cast<uint32_t>(freq_mhz * 65536.0f / 26.0f) for the custom
\* carrier frequency of the model, 868.30 MHz
CustomFreqReg == 2188650

\* set_carrier_frequency: the three bytes of freq_reg, high byte first
set_carrier_frequency(freq_reg) ==
    << Write("FREQ2", (freq_reg \div 65536) % 256),
       Write("FREQ1", (freq_reg \div 256) % 256),
       Write("FREQ0", freq_reg % 256) >>

\* the strobes and register writes of restart_rx: set_idle_, then init_rx_
\* (set_idle_, SFTX, SFRX, FIFOTHR, PKTCTRL0, SRX)
RestartRxOps ==
    << Strobe("SIDLE"), Strobe("SIDLE"), Strobe("SFTX"), Strobe("SFRX"),
       Write("FIFOTHR", 0), Write("PKTCTRL0", 2), Strobe("SRX") >>

\* CC1101::setup: reset, identity check, RF settings, frequency,
\* calibration, restart_rx.  The log holds the strobes, the register
\* writes and the two identity reads; the reads that only feed log lines
\* are left out
CC1101Setup ==
    /\ su_pc = "boot"
    /\ su_pc' = "cc_done"
    /\ IF IdentityFailed(version)
       THEN /\ cc_failed' = TRUE
            /\ setup_ops' = << Strobe("SRES"), StatusRead("PARTNUM"),
                               StatusRead("VERSION") >>
            /\ UNCHANGED rxVars
       ELSE /\ cc_failed' = FALSE
            /\ setup_ops' = << Strobe("SRES"), StatusRead("PARTNUM"),
                               StatusRead("VERSION") >>
                            \o apply_wmbus_rf_settings
                            \o (IF custom_frequency
                                THEN set_carrier_frequency(CustomFreqReg)
                                ELSE <<>>)
                            \o << Strobe("SCAL") >> \o RestartRxOps
            /\ init_rx_
            /\ UNCHANGED callVars
    /\ UNCHANGED <<version, custom_frequency, radio_failed>>

\* Radio::setup: the queue, then the receiver task, which begins its first
\* receive_frame; either creation can fail and marks the radio failed
RadioSetup ==
    /\ su_pc = "cc_done"
    /\ su_pc' = "radio_done"
    /\ \E queue_created \in BOOLEAN, task_created \in BOOLEAN :
          IF queue_created /\ task_created
          THEN /\ rpc' = "start"
               /\ UNCHANGED radio_failed
          ELSE /\ radio_failed' = TRUE
               /\ UNCHANGED rpc
    /\ UNCHANGED <<use_interrupt, rx_initialized, notify_pending, packet,
                   packet_info, created, packet_queue_, handlers_, freed,
                   delivered, calls, send_log, recv_log, tick>>
    /\ UNCHANGED <<version, custom_frequency, cc_failed, setup_ops>>

\* the chip answers the identity read with any byte; the transceiver is
\* set up before the radio component that uses it; CC1101 is polled
InitSetup ==
    /\ version \in 0..255
    /\ custom_frequency \in BOOLEAN
    /\ su_pc = "boot"
    /\ cc_failed = FALSE
    /\ radio_failed = FALSE
    /\ setup_ops = <<>>

NextSetup ==
    \/ (CC1101Setup /\ UNCHANGED <<decVars, encVars, qVars, irVars, clkVars, numVars>>)
    \/ (RadioSetup /\ UNCHANGED <<decVars, encVars, rxVars, irVars, clkVars, numVars>>)
    \/ (ReceiverTask /\ UNCHANGED <<decVars, encVars, rxVars, suVars, irVars, clkVars, numVars>>)

InitSpecSetup == InitSetup /\ DecIdle /\ EncIdle /\ QIdle /\ InitRx /\ IrIdle /\ ClkIdle /\ NumIdle

SpecSetup == InitSpecSetup /\ [][NextSetup]_vars

--------------------------------------------------------------------------
(* Inputs of the decoder: the first 8*n bits of a string of 6-bit symbols, *)
(* each symbol either a probe symbol s (any of the 64 patterns) or the     *)
(* code of nibble 0, packed most significant bit first.                    *)

\* the code the table gives nibble 0
CodeOfZero == 22

\* number of 6-bit symbols that overlap n bytes
SymbolsOver(n) == (8 * n + 5) \div 6

\* bit k (0-based, most significant first) of the symbol string syms
SymBit(syms, k) == Shr(syms[(k \div 6) + 1], 5 - (k % 6)) % 2

\* byte j (0-based) of the packed symbol string
PackedByte(syms, j) ==
    LET b(k) == SymBit(syms, 8 * j + k)
    IN  128 * b(0) + 64 * b(1) + 32 * b(2) + 16 * b(3)
        + 8 * b(4) + 4 * b(5) + 2 * b(6) + b(7)

Pack(syms, n) == [j \in 1..n |-> PackedByte(syms, j - 1)]

\* the input of n bytes with the probe symbol s where pat has a 1
DecoderInput(s, n, pat) ==
    Pack([i \in 1..SymbolsOver(n) |-> IF pat[i] = 1 THEN s ELSE CodeOfZero], n)

--------------------------------------------------------------------------
(* SpecDec: decode3of6 applied to one input.                               *)

InitDec ==
    /\ \E s \in 0..63, n \in 0..MaxCodedLen :
          \E pat \in [1..SymbolsOver(n) -> {0, 1}] :
             coded_data = DecoderInput(s, n, pat)
    /\ decoded = DecodeFail("none")
    /\ dec_pc = "ready"

Decode ==
    /\ dec_pc = "ready"
    /\ decoded' = decode3of6(coded_data)
    /\ dec_pc' = "done"
    /\ UNCHANGED coded_data

NextDec == Decode /\ UNCHANGED <<encVars, qVars, rxVars, suVars, irVars, clkVars, numVars>>

\* the receiver task and the consumer are not part of this specification
InitSpecDec == InitDec /\ EncIdle /\ QIdle /\ InitRx /\ SuIdle /\ IrIdle /\ ClkIdle /\ NumIdle

SpecDec == InitSpecDec /\ [][NextDec]_vars

--------------------------------------------------------------------------
(* SpecEnc: encoded_size applied to one decoded length.                    *)

InitEnc ==
    /\ enc_n \in 0..MaxDecodedLen
    /\ enc_out = 0
    /\ enc_pc = "ready"

EncodedSize ==
    /\ enc_pc = "ready"
    /\ enc_out' = encoded_size(enc_n)
    /\ enc_pc' = "done"
    /\ UNCHANGED enc_n

NextEnc == EncodedSize /\ UNCHANGED <<decVars, qVars, rxVars, suVars, irVars, clkVars, numVars>>

InitSpecEnc == InitEnc /\ DecIdle /\ QIdle /\ InitRx /\ SuIdle /\ IrIdle /\ ClkIdle /\ NumIdle

SpecEnc == InitSpecEnc /\ [][NextEnc]_vars

--------------------------------------------------------------------------
(* SpecRx: CC1101::read polled for ever against the chip.                  *)

NextRx ==
    \/ (ReadEnter /\ UNCHANGED <<decVars, encVars, qVars, suVars, irVars, clkVars, numVars>>)
    \/ (WaitSyncStatus /\ UNCHANGED <<decVars, encVars, qVars, suVars, irVars, clkVars, numVars>>)
    \/ (WaitSyncFlush /\ UNCHANGED <<decVars, encVars, qVars, suVars, irVars, clkVars, numVars>>)
    \/ (WaitSyncPin /\ UNCHANGED <<decVars, encVars, qVars, suVars, irVars, clkVars, numVars>>)
    \/ (WaitDataTimeout /\ UNCHANGED <<decVars, encVars, qVars, suVars, irVars, clkVars, numVars>>)
    \/ (WaitDataPin /\ UNCHANGED <<decVars, encVars, qVars, suVars, irVars, clkVars, numVars>>)
    \/ (WaitDataOverflow /\ UNCHANGED <<decVars, encVars, qVars, suVars, irVars, clkVars, numVars>>)
    \/ (WaitDataHeader /\ UNCHANGED <<decVars, encVars, qVars, suVars, irVars, clkVars, numVars>>)
    \/ (WaitDataConfig /\ UNCHANGED <<decVars, encVars, qVars, suVars, irVars, clkVars, numVars>>)
    \/ (WaitDataDrainStatus /\ UNCHANGED <<decVars, encVars, qVars, suVars, irVars, clkVars, numVars>>)
    \/ (WaitDataDrainRead /\ UNCHANGED <<decVars, encVars, qVars, suVars, irVars, clkVars, numVars>>)
    \/ (ReadDataOverflow /\ UNCHANGED <<decVars, encVars, qVars, suVars, irVars, clkVars, numVars>>)
    \/ (ReadDataStatus /\ UNCHANGED <<decVars, encVars, qVars, suVars, irVars, clkVars, numVars>>)
    \/ (ReadDataRead /\ UNCHANGED <<decVars, encVars, qVars, suVars, irVars, clkVars, numVars>>)
    \/ (ReadDataFinal /\ UNCHANGED <<decVars, encVars, qVars, suVars, irVars, clkVars, numVars>>)
    \/ (HwSync /\ UNCHANGED <<decVars, encVars, qVars, suVars, irVars, clkVars, numVars>>)
    \/ (HwByte /\ UNCHANGED <<decVars, encVars, qVars, suVars, irVars, clkVars, numVars>>)
    \/ (HwOverflow /\ UNCHANGED <<decVars, encVars, qVars, suVars, irVars, clkVars, numVars>>)
    \/ (Tick /\ UNCHANGED <<decVars, encVars, qVars, suVars, irVars, clkVars, numVars>>)

\* the decoder as a call of its own, the receiver task and the consumer
\* are not part of this specification
InitSpecRx == InitRx /\ DecIdle /\ EncIdle /\ QIdle /\ SuIdle /\ IrIdle /\ ClkIdle /\ NumIdle

SpecRx == InitSpecRx /\ [][NextRx]_vars

--------------------------------------------------------------------------
(* SpecHdr: wait_for_data_ from the header read on, for every header.      *)

\* the headers of SpecHdr: 0x54 with block A, block B and an unknown block
\* type and every L-field; every other first byte, the second byte being
\* 0x44 or 0x54
AllHeaders ==
    {<<WMBUS_MODE_C_PREAMBLE, b, l, 68>> :
        b \in {WMBUS_BLOCK_A_PREAMBLE, WMBUS_BLOCK_B_PREAMBLE, 153},
        l \in 0..255}
    \cup {<<l, c, 46, 12>> :
        l \in (0..255) \ {WMBUS_MODE_C_PREAMBLE},
        c \in {68, WMBUS_MODE_C_PREAMBLE}}

\* init_rx_ has run, the sync word was seen, GDO0 is high, the overflow
\* check of wait_for_data_ has passed; the FIFO holds the header and up to
\* MaxFill - 4 bytes more
InitHdr ==
    /\ marc = "RX"
    /\ gdo2 = TRUE
    /\ fifo_rd = 0
    /\ fifo_wr \in 4..MaxFill
    /\ tx \in AllHeaders
    /\ fifothr = 0
    /\ pktlen = 255
    /\ pktctrl0 = 2
    /\ overflowed = FALSE
    /\ rx_state_ = "WAIT_FOR_DATA"
    /\ rx_buffer_ = <<>>
    /\ bytes_received_ = 0
    /\ expected_length_ = 0
    /\ length_field_ = 0
    /\ length_mode_ = "INFINITE"
    /\ wmbus_mode_ = "UNKNOWN"
    /\ wmbus_block_ = "UNKNOWN"
    /\ since_sync = 0
    /\ pc = "wd_header"
    /\ n_read = 0
    /\ inv = NewCall(FALSE)

NextHdr ==
    \/ (WaitDataHeader /\ UNCHANGED <<decVars, encVars, qVars, suVars, irVars, clkVars, numVars>>)
    \/ (WaitDataConfig /\ UNCHANGED <<decVars, encVars, qVars, suVars, irVars, clkVars, numVars>>)
    \/ (WaitDataDrainStatus /\ UNCHANGED <<decVars, encVars, qVars, suVars, irVars, clkVars, numVars>>)
    \/ (WaitDataDrainRead /\ UNCHANGED <<decVars, encVars, qVars, suVars, irVars, clkVars, numVars>>)

InitSpecHdr == InitHdr /\ DecIdle /\ EncIdle /\ QIdle /\ SuIdle /\ IrIdle /\ ClkIdle /\ NumIdle

SpecHdr == InitSpecHdr /\ [][NextHdr]_vars

--------------------------------------------------------------------------
(* SpecInit: one call of init_rx_, status poll by status poll, against a   *)
(* chip that answers the MARCSTATE reads with any state.                   *)

\* for (int i = 0; i < 10; i++) of set_idle_
SetIdlePolls == 10

\* for (int i = 0; i < 10; i++) of init_rx_
RxEnterPolls == 10

\* what a MARCSTATE read can return, as far as the code tells the values
\* apart: IDLE, RX, and any other state
MarcStates == {"IDLE", "RX", "RX_OVERFLOW"}

\* the loop of set_idle_ going on until the chip reports IDLE; the count
\* stops one above the limit of the code
SetIdlePoll_Unbounded ==
    /\ ir_pc = "idle_poll"
    /\ \E marc_state \in MarcStates :
          /\ marc' = marc_state
          /\ idle_polls' = Min(idle_polls + 1, SetIdlePolls + 1)
          /\ ir_pc' = IF marc_state = "IDLE" THEN "configure" ELSE "idle_poll"
    /\ UNCHANGED <<gdo2, fifo_rd, fifo_wr, tx, fifothr, pktlen, pktctrl0,
                   overflowed>>
    /\ UNCHANGED <<drvVars, callVars, since_sync, rx_polls, rx_entered>>

\* init_rx_ is called: set_idle_ sends SIDLE
InitRxCall ==
    /\ ir_pc = "call"
    /\ ir_pc' = "idle_poll"
    /\ idle_polls' = 0
    /\ UNCHANGED <<rxVars, rx_polls, rx_entered>>

\* set_idle_: one round of the loop, a MARCSTATE read; IDLE ends the loop,
\* and so does the tenth read
SetIdlePoll ==
    /\ ir_pc = "idle_poll"
    /\ idle_polls < SetIdlePolls
    /\ \E marc_state \in MarcStates :
          /\ marc' = marc_state
          /\ idle_polls' = idle_polls + 1
          /\ ir_pc' = IF marc_state = "IDLE" \/ idle_polls + 1 = SetIdlePolls
                      THEN "configure" ELSE "idle_poll"
    /\ UNCHANGED <<gdo2, fifo_rd, fifo_wr, tx, fifothr, pktlen, pktctrl0,
                   overflowed>>
    /\ UNCHANGED <<drvVars, callVars, since_sync, rx_polls, rx_entered>>

\* init_rx_ from SFTX to SRX
InitRxStrobes ==
    /\ ir_pc = "configure"
    /\ InitRxConfigure
    /\ ir_pc' = "rx_poll"
    /\ rx_polls' = 0
    /\ rx_entered' = FALSE
    /\ UNCHANGED <<marc, rx_state_, callVars, idle_polls>>

\* init_rx_: one round of the wait for the RX state; RX ends the loop, and
\* so does the tenth read
InitRxPoll ==
    /\ ir_pc = "rx_poll"
    /\ rx_polls < RxEnterPolls
    /\ \E marc_state \in MarcStates :
          /\ marc' = marc_state
          /\ rx_polls' = rx_polls + 1
          /\ rx_entered' = (marc_state = "RX")
          /\ ir_pc' = IF marc_state = "RX" \/ rx_polls + 1 = RxEnterPolls
                      THEN "finish" ELSE "rx_poll"
    /\ UNCHANGED <<gdo2, fifo_rd, fifo_wr, tx, fifothr, pktlen, pktctrl0,
                   overflowed>>
    /\ UNCHANGED <<drvVars, callVars, since_sync, idle_polls>>

\* init_rx_: the log line, then rx_state_ = WAIT_FOR_SYNC, whether the
\* chip entered RX or not
InitRxFinish ==
    /\ ir_pc = "finish"
    /\ rx_state_' = "WAIT_FOR_SYNC"
    /\ ir_pc' = "done"
    /\ UNCHANGED <<hwVars, rx_buffer_, bytes_received_, expected_length_,
                   length_field_, length_mode_, wmbus_mode_, wmbus_block_>>
    /\ UNCHANGED <<callVars, since_sync, idle_polls, rx_polls, rx_entered>>

\* init_rx_ is called at setup (restart_rx), and by read() in INIT_RX,
\* which every abort and every completed frame lead to: the members and
\* the chip are as any of these left them
InitInit ==
    /\ marc \in MarcStates
    /\ gdo2 \in BOOLEAN
    /\ \E fill \in {0, 5, FifoSize} :
          /\ fifo_rd = 0
          /\ fifo_wr = fill
          /\ tx = IF fill = 0 THEN <<>> ELSE Headers[1]
    /\ fifothr \in {0, RX_FIFO_THRESHOLD}
    /\ pktlen = 255
    /\ \E fixed \in BOOLEAN :
          /\ pktctrl0 = IF fixed THEN 0 ELSE 2
          /\ length_mode_ = IF fixed THEN "FIXED" ELSE "INFINITE"
    /\ overflowed = FALSE
    /\ rx_state_ = "INIT_RX"
    /\ \E got \in {0, 6} :
          /\ rx_buffer_ = SubSeq(<<84, 205, 58, 68, 46, 12>>, 1, got)
          /\ bytes_received_ = got
          /\ expected_length_ = IF got = 0 THEN 0 ELSE 69
          /\ length_field_ = IF got = 0 THEN 0 ELSE 58
          /\ wmbus_mode_ = IF got = 0 THEN "UNKNOWN" ELSE "C"
          /\ wmbus_block_ = IF got = 0 THEN "UNKNOWN" ELSE "A"
    /\ since_sync = 0
    /\ pc = "idle"
    /\ n_read = 0
    /\ inv = NewCall(FALSE)
    /\ ir_pc = "call"
    /\ idle_polls = 0
    /\ rx_polls = 0
    /\ rx_entered = FALSE

NextInit ==
    \/ (InitRxCall /\ UNCHANGED <<decVars, encVars, qVars, suVars, clkVars, numVars>>)
    \/ (SetIdlePoll /\ UNCHANGED <<decVars, encVars, qVars, suVars, clkVars, numVars>>)
    \/ (InitRxStrobes /\ UNCHANGED <<decVars, encVars, qVars, suVars, clkVars, numVars>>)
    \/ (InitRxPoll /\ UNCHANGED <<decVars, encVars, qVars, suVars, clkVars, numVars>>)
    \/ (InitRxFinish /\ UNCHANGED <<decVars, encVars, qVars, suVars, clkVars, numVars>>)

InitSpecInit == InitInit /\ DecIdle /\ EncIdle /\ QIdle /\ SuIdle /\ ClkIdle /\ NumIdle

SpecInit == InitSpecInit /\ [][NextInit]_vars

\* init_rx_ is straight-line code with two counted loops and delays of a
\* millisecond: a call that has begun goes on
SpecInitFair == SpecInit /\ WF_vars(NextInit)

--------------------------------------------------------------------------
(* SpecWait: read() polled in WAIT_FOR_DATA while the millisecond clock,   *)
(* a uint32_t, runs on and wraps around.                                   *)

\* a uint32_t is kept as <<high half, low half>>, each below 2^16
Half == 65536

\* the milliseconds the clock of SpecWait runs on after the sync word
MaxElapsed == 60

\* a + 1 in uint32_t
Inc32(a) ==
    IF a[2] = Half - 1 THEN <<(a[1] + 1) % Half, 0>> ELSE <<a[1], a[2] + 1>>

\* a - b in arithmetic that does not wrap: nothing below 0
Sub32_NoWrap(a, b) ==
    IF a[1] < b[1] \/ (a[1] = b[1] /\ a[2] < b[2])
    THEN <<0, 0>>
    ELSE LET borrow == IF a[2] < b[2] THEN 1 ELSE 0
         IN  <<a[1] - b[1] - borrow, (a[2] - b[2] + Half) % Half>>

\* a - b in uint32_t: modulo 2^32
Sub32(a, b) ==
    LET borrow == IF a[2] < b[2] THEN 1 ELSE 0
    IN  <<(a[1] - b[1] - borrow + Half) % Half, (a[2] - b[2] + Half) % Half>>

\* a uint32_t difference as since_sync keeps it: counted up to
\* max_wait_time_ + 1
AsSinceSync(d) ==
    IF d[1] > 0 \/ d[2] > max_wait_time_ THEN max_wait_time_ + 1 ELSE d[2]

\* a millisecond passes between two invocations: millis() returns one
\* more, and millis() - sync_time_ of line 232 is the uint32_t difference
MillisTick ==
    /\ pc = "idle"
    /\ rx_state_ = "WAIT_FOR_DATA"
    /\ elapsed < MaxElapsed
    /\ millis' = Inc32(millis)
    /\ elapsed' = elapsed + 1
    /\ since_sync' = AsSinceSync(Sub32(millis', sync_time_))
    /\ UNCHANGED <<sync_time_, hwVars, drvVars, callVars>>

\* the sync word was seen at sync_time_, a value far from or right before
\* the wrap of the clock; the chip has received none, some or all of the
\* header, so that GDO0 is low or high
InitWait ==
    /\ marc = "RX"
    /\ gdo2 = TRUE
    /\ fifo_rd = 0
    /\ fifo_wr \in {0, 3, 4, MaxFill}
    /\ tx = Headers[1]
    /\ fifothr = 0
    /\ pktlen = 255
    /\ pktctrl0 = 2
    /\ overflowed = FALSE
    /\ rx_state_ = "WAIT_FOR_DATA"
    /\ rx_buffer_ = <<>>
    /\ bytes_received_ = 0
    /\ expected_length_ = 0
    /\ length_field_ = 0
    /\ length_mode_ = "INFINITE"
    /\ wmbus_mode_ = "UNKNOWN"
    /\ wmbus_block_ = "UNKNOWN"
    /\ since_sync = 0
    /\ pc = "idle"
    /\ n_read = 0
    /\ inv = NewCall(FALSE)
    /\ sync_time_ \in {<<0, 0>>, <<0, Half - 30>>, <<Half \div 2 - 1, Half - 51>>,
                       <<Half - 1, Half - 52>>, <<Half - 1, Half - 40>>,
                       <<Half - 1, Half - 1>>}
    /\ millis = sync_time_
    /\ elapsed = 0

\* the invocation up to the read of GDO0; what follows it is SpecHdr's
NextWait ==
    \/ (MillisTick /\ UNCHANGED <<decVars, encVars, qVars, suVars, irVars, numVars>>)
    \/ (ReadEnter /\ UNCHANGED <<decVars, encVars, qVars, suVars, irVars, clkVars, numVars>>)
    \/ (WaitDataTimeout /\ UNCHANGED <<decVars, encVars, qVars, suVars, irVars, clkVars, numVars>>)
    \/ (WaitDataPin /\ UNCHANGED <<decVars, encVars, qVars, suVars, irVars, clkVars, numVars>>)

InitSpecWait == InitWait /\ DecIdle /\ EncIdle /\ QIdle /\ SuIdle /\ IrIdle /\ NumIdle

SpecWait == InitSpecWait /\ [][NextWait]_vars

--------------------------------------------------------------------------
(* SpecLen: the length mode from the header read to the next init_rx_,     *)
(* for every header, the chip receiving nothing more meanwhile.            *)

NextLen ==
    \/ (WaitDataHeader /\ UNCHANGED <<decVars, encVars, qVars, suVars, irVars, clkVars, numVars>>)
    \/ (WaitDataConfig /\ UNCHANGED <<decVars, encVars, qVars, suVars, irVars, clkVars, numVars>>)
    \/ (WaitDataDrainStatus /\ UNCHANGED <<decVars, encVars, qVars, suVars, irVars, clkVars, numVars>>)
    \/ (WaitDataDrainRead /\ UNCHANGED <<decVars, encVars, qVars, suVars, irVars, clkVars, numVars>>)
    \/ (ReadDataOverflow /\ UNCHANGED <<decVars, encVars, qVars, suVars, irVars, clkVars, numVars>>)
    \/ (ReadDataStatus /\ UNCHANGED <<decVars, encVars, qVars, suVars, irVars, clkVars, numVars>>)
    \/ (ReadDataFinal /\ UNCHANGED <<decVars, encVars, qVars, suVars, irVars, clkVars, numVars>>)
    \/ (ReadEnter /\ UNCHANGED <<decVars, encVars, qVars, suVars, irVars, clkVars, numVars>>)

InitSpecLen == InitHdr /\ DecIdle /\ EncIdle /\ QIdle /\ SuIdle /\ IrIdle /\ ClkIdle /\ NumIdle

SpecLen == InitSpecLen /\ [][NextLen]_vars

--------------------------------------------------------------------------
(* SpecRd: one call of read_data_ for every classified header and every    *)
(* filling of the FIFO.                                                    *)

\* wait_for_data_ has classified the header, set the length mode and found
\* nothing more to drain; since then the chip has put occ bytes into the
\* FIFO, in fixed length mode no more than the packet has
InitRd ==
    /\ tx \in {h \in AllHeaders : ClassifyHeader(h).known}
    /\ fifo_rd = 4
    /\ \E occ \in 0..FifoSize :
          /\ fifo_wr = 4 + occ
          /\ LET c == ClassifyHeader(tx)
                 fixed == c.expected_length < MAX_FIXED_LENGTH
                 ended == fixed /\ 4 + occ = c.expected_length
             IN  /\ (fixed /\ c.expected_length >= 4)
                       => 4 + occ <= c.expected_length
                 /\ marc = IF ended THEN "IDLE" ELSE "RX"
                 /\ gdo2 = ~ended
                 /\ pktlen = IF fixed THEN c.expected_length ELSE 255
                 /\ pktctrl0 = IF fixed THEN 0 ELSE 2
                 /\ length_mode_ = IF fixed THEN "FIXED" ELSE "INFINITE"
                 /\ rx_buffer_ = c.buffer
                 /\ bytes_received_ = c.bytes_received
                 /\ expected_length_ = c.expected_length
                 /\ length_field_ = c.length_field
                 /\ wmbus_mode_ = c.mode
                 /\ wmbus_block_ = c.block
    /\ fifothr = RX_FIFO_THRESHOLD
    /\ overflowed = FALSE
    /\ rx_state_ = "READ_DATA"
    /\ since_sync = 0
    /\ pc = "rd_top"
    /\ n_read = 0
    /\ inv = [NewCall(FALSE) EXCEPT !.trail = <<"READ_DATA">>]

\* read_data_ up to its completion check
NextRd ==
    \/ (ReadDataOverflow /\ UNCHANGED <<decVars, encVars, qVars, suVars, irVars, clkVars, numVars>>)
    \/ (ReadDataStatus /\ UNCHANGED <<decVars, encVars, qVars, suVars, irVars, clkVars, numVars>>)
    \/ (ReadDataRead /\ UNCHANGED <<decVars, encVars, qVars, suVars, irVars, clkVars, numVars>>)

InitSpecRd == InitRd /\ DecIdle /\ EncIdle /\ QIdle /\ SuIdle /\ IrIdle /\ ClkIdle /\ NumIdle

SpecRd == InitSpecRd /\ [][NextRd]_vars

--------------------------------------------------------------------------
(* SpecRssi: get_rssi applied to every value of the RSSI register.         *)

\* a / b of C++ on ints: the quotient truncated towards 0
TruncDiv(a, b) == IF a >= 0 THEN a \div b ELSE -((-a) \div b)

\* static_cast<int8_t>(x): the value modulo 2^8 in -128..127
Int8(x) == ((x + 128) % 256) - 128

\* int8_t CC1101::get_rssi(), rssi_raw being what the RSSI register reads
get_rssi(raw) ==
    LET dbm == IF raw >= 128 THEN TruncDiv(raw - 256, 2) - 74
               ELSE TruncDiv(raw, 2) - 74
    IN  Int8(dbm)

GetRssi ==
    /\ rssi_pc = "ready"
    /\ rssi_dbm' = get_rssi(rssi_raw)
    /\ rssi_pc' = "done"
    /\ UNCHANGED <<rssi_raw, frequency_mhz_, freq_ops, freq_pc, loop_counter>>

NextRssi ==
    GetRssi /\ UNCHANGED <<decVars, encVars, qVars, rxVars, suVars, irVars, clkVars>>

InitSpecRssi ==
    /\ rssi_raw \in 0..255
    /\ rssi_dbm = 0
    /\ rssi_pc = "ready"
    /\ frequency_mhz_ = 86895
    /\ freq_ops = <<>>
    /\ freq_pc = "off"
    /\ loop_counter = 0
    /\ DecIdle /\ EncIdle /\ QIdle /\ InitRx /\ SuIdle /\ IrIdle /\ ClkIdle

SpecRssi == InitSpecRssi /\ [][NextRssi]_vars

--------------------------------------------------------------------------
(* SpecFreq: set_carrier_frequency applied to the carrier frequencies of   *)
(* the 868 MHz band in steps of 0.01 MHz.                                  *)

\* the frequencies of SpecFreq, in hundredths of a MHz
MinFreq == 86000
MaxFreq == 88000

\* n / d rounded to the nearest integer, a tie to the even one: the
\* rounding of float arithmetic
RoundHalfEven(n, d) ==
    LET q == n \div d
        r == n % d
    IN  IF 2 * r > d \/ (2 * r = d /\ q % 2 = 1) THEN q + 1 ELSE q

\* freq_mhz * 65536.0f / 26.0f converted to uint32_t, for freq_mhz the float
\* nearest to c / 100.  A float has 24 significant bits: between 512 and
\* 1024 it is a multiple of 2^-14, the product with 65536 is exact, and
\* the quotient, between 2^21 and 2^22, is rounded to a multiple of 1/4;
\* the conversion drops the fraction
FreqReg(c) ==
    LET freq_mhz == RoundHalfEven(c * 16384, 100)     \* in units of 2^-14
        quotient == RoundHalfEven(16 * freq_mhz, 26)  \* in units of 1/4
    IN  quotient \div 4

SetCarrierFrequency ==
    /\ freq_pc = "ready"
    /\ freq_ops' = set_carrier_frequency(FreqReg(frequency_mhz_))
    /\ freq_pc' = "done"
    /\ UNCHANGED <<frequency_mhz_, rssi_raw, rssi_dbm, rssi_pc, loop_counter>>

NextFreq ==
    SetCarrierFrequency /\ UNCHANGED <<decVars, encVars, qVars, rxVars, suVars, irVars, clkVars>>

InitSpecFreq ==
    /\ rssi_raw = 0
    /\ rssi_dbm = 0
    /\ rssi_pc = "off"
    /\ frequency_mhz_ \in MinFreq..MaxFreq
    /\ freq_ops = <<>>
    /\ freq_pc = "ready"
    /\ loop_counter = 0
    /\ DecIdle /\ EncIdle /\ QIdle /\ InitRx /\ SuIdle /\ IrIdle /\ ClkIdle

SpecFreq == InitSpecFreq /\ [][NextFreq]_vars

--------------------------------------------------------------------------
(* SpecLoop: the READ_DATA loop of read(), invocation after invocation,    *)
(* while the chip feeds the FIFO at any pace.                              *)

\* largest L-field of the short frames of SpecLoop
MaxLoopL == 6

\* L-field of the long frame of SpecLoop
LongL == 20

\* the transmissions of SpecLoop: short frames of both conventions, and
\* one frame longer than the FIFO and than what is received of it
LoopHeaders ==
    {h \in AllHeaders :
        /\ ClassifyHeader(h).known
        /\ h[4] = 68 \/ h[2] = 68
        /\ ClassifyHeader(h).length_field \in (0..MaxLoopL) \cup {LongL}}

\* the switch has reached case READ_DATA for the first time after the
\* header was classified
InitLoop ==
    /\ InitRd
    /\ tx \in LoopHeaders
    /\ loop_counter = 0

\* a later invocation of read() finds rx_state_ = READ_DATA and enters the
\* loop
LoopEnter ==
    /\ rx_state_ = "READ_DATA"
    /\ ReadEnter
    /\ loop_counter' = 0
    /\ UNCHANGED <<rssi_raw, rssi_dbm, rssi_pc, frequency_mhz_, freq_ops,
                   freq_pc>>

\* an iteration begins: ++loop_counter, then read_data_ is called
LoopIterate ==
    /\ ReadDataOverflow
    /\ loop_counter' = loop_counter + 1
    /\ UNCHANGED <<rssi_raw, rssi_dbm, rssi_pc, frequency_mhz_, freq_ops,
                   freq_pc>>

\* the steps of the processor
LoopStep ==
    \/ (LoopEnter /\ UNCHANGED <<decVars, encVars, qVars, suVars, irVars, clkVars>>)
    \/ (LoopIterate /\ UNCHANGED <<decVars, encVars, qVars, suVars, irVars, clkVars>>)
    \/ (ReadDataStatus /\ UNCHANGED <<decVars, encVars, qVars, suVars, irVars, clkVars, numVars>>)
    \/ (ReadDataRead /\ UNCHANGED <<decVars, encVars, qVars, suVars, irVars, clkVars, numVars>>)
    \/ (ReadDataFinal /\ UNCHANGED <<decVars, encVars, qVars, suVars, irVars, clkVars, numVars>>)

\* the steps of the chip
ChipStep ==
    \/ (HwByte /\ UNCHANGED <<decVars, encVars, qVars, suVars, irVars, clkVars, numVars>>)
    \/ (HwOverflow /\ UNCHANGED <<decVars, encVars, qVars, suVars, irVars, clkVars, numVars>>)

NextLoop == LoopStep \/ ChipStep

InitSpecLoop ==
    /\ InitLoop
    /\ rssi_raw = 0
    /\ rssi_dbm = 0
    /\ rssi_pc = "off"
    /\ frequency_mhz_ = 86895
    /\ freq_ops = <<>>
    /\ freq_pc = "off"
    /\ DecIdle /\ EncIdle /\ QIdle /\ SuIdle /\ IrIdle /\ ClkIdle

\* the processor goes on executing the invocation it is in
SpecLoop == InitSpecLoop /\ [][NextLoop]_vars /\ WF_vars(LoopStep)

--------------------------------------------------------------------------
(* SpecAcc: read_data_ called late in a frame, the longest frames          *)
(* included, with any FIFO occupancy.                                      *)

\* how far before the end of a frame the calls of SpecAcc begin
MaxTail == 70

\* the frames of SpecAcc: the shortest and the longest L-field of both
\* conventions
AccHeaders ==
    {h \in AllHeaders :
        /\ ClassifyHeader(h).known
        /\ h[4] = 68 \/ h[2] = 68
        /\ ClassifyHeader(h).length_field \in {0, 255}}

\* read() is about to call read_data_: the header was classified, the
\* drain and earlier calls have taken the FIFO bytes 5..fifo_rd into the
\* accumulator, the FIFO holds occ bytes more.  A frame whose
\* expected_length_ is below the bytes the header counted for has had any
\* number of bytes drained
InitAcc ==
    /\ tx \in AccHeaders
    /\ \E occ \in 0..FifoSize, got \in 0..(MAX_FRAME_SIZE + FifoSize) :
          LET c == ClassifyHeader(tx)
              wrapped == c.expected_length < c.bytes_received
              hi == IF wrapped THEN c.bytes_received + FifoSize
                    ELSE c.expected_length
              fixed == c.expected_length < MAX_FIXED_LENGTH
              taken == got - c.bytes_received
              ended == fixed /\ 4 + taken + occ = c.expected_length
          IN  /\ got >= c.bytes_received
              /\ got <= hi
              /\ got >= hi - MaxTail
              /\ (fixed /\ c.expected_length >= 4)
                    => 4 + taken + occ <= c.expected_length
              /\ fifo_rd = 4 + taken
              /\ fifo_wr = 4 + taken + occ
              /\ marc = IF ended THEN "IDLE" ELSE "RX"
              /\ gdo2 = ~ended
              /\ pktlen = IF fixed THEN c.expected_length ELSE 255
              /\ pktctrl0 = IF fixed THEN 0 ELSE 2
              /\ length_mode_ = IF fixed THEN "FIXED" ELSE "INFINITE"
              /\ rx_buffer_ = c.buffer
                                \o [i \in 1..taken |-> Stream(tx, 4 + i)]
              /\ bytes_received_ = got
              /\ expected_length_ = c.expected_length
              /\ length_field_ = c.length_field
              /\ wmbus_mode_ = c.mode
              /\ wmbus_block_ = c.block
    /\ fifothr = RX_FIFO_THRESHOLD
    /\ overflowed = FALSE
    /\ rx_state_ = "READ_DATA"
    /\ since_sync = 0
    /\ pc = "rd_top"
    /\ n_read = 0
    /\ inv = [NewCall(FALSE) EXCEPT !.trail = <<"READ_DATA">>]

\* the loop of read() over read_data_, the final drain included
NextAcc ==
    \/ (ReadDataOverflow /\ UNCHANGED <<decVars, encVars, qVars, suVars, irVars, clkVars, numVars>>)
    \/ (ReadDataStatus /\ UNCHANGED <<decVars, encVars, qVars, suVars, irVars, clkVars, numVars>>)
    \/ (ReadDataRead /\ UNCHANGED <<decVars, encVars, qVars, suVars, irVars, clkVars, numVars>>)
    \/ (ReadDataFinal /\ UNCHANGED <<decVars, encVars, qVars, suVars, irVars, clkVars, numVars>>)

InitSpecAcc == InitAcc /\ DecIdle /\ EncIdle /\ QIdle /\ SuIdle /\ IrIdle /\ ClkIdle /\ NumIdle

SpecAcc == InitSpecAcc /\ [][NextAcc]_vars

--------------------------------------------------------------------------
(* Claims about CC1101::read.                                              *)

\* a read() invocation has returned and no other has begun
Returned == pc = "idle" /\ inv.returned

\* the invocation saw one of the failures read() aborts on
SawFailure == inv.overflow_seen \/ inv.timeout_seen \/ inv.decode_failed

\* C1 as stated: read() emits a value only in an invocation in which
\* read_data_ reported the frame complete and no decode failed, and every
\* invocation that observes a FIFO overflow, a data-wait timeout or a
\* decode failure returns no value and leaves rx_state_ = INIT_RX.
C1_FailureLeavesInitRx ==
    Returned =>
        /\ inv.ret.has => (inv.complete /\ ~inv.decode_failed)
        /\ SawFailure => (~inv.ret.has /\ rx_state_ = "INIT_RX")

\* C1 amended: read() emits a value only in an invocation in which
\* read_data_ reported the frame complete, no failure was seen and all the
\* expected bytes were received; every invocation that observes a FIFO
\* overflow, a data-wait timeout or a decode failure returns no value and
\* sets rx_state_ = INIT_RX: it leaves INIT_RX when the switch observed
\* the failure, and when the periodic diagnostics observed the overflow
\* the same invocation runs init_rx_ and leaves WAIT_FOR_SYNC with the
\* accumulator empty.
C1_FailureReachesInitRx ==
    Returned =>
        /\ inv.ret.has => /\ inv.complete
                          /\ ~SawFailure
                          /\ bytes_received_ >= expected_length_
                          /\ rx_state_ = "INIT_RX"
        /\ SawFailure => /\ ~inv.ret.has
                         /\ inv.to_init
                         /\ IF inv.diag_forced
                            THEN /\ rx_state_ = "WAIT_FOR_SYNC"
                                 /\ rx_buffer_ = <<>>
                            ELSE rx_state_ = "INIT_RX"

\* an invocation found the overflow with a part of a frame accumulated
\* and returned nothing
C1_Witness ==
    /\ Returned
    /\ inv.overflow_seen
    /\ ~inv.diag_forced
    /\ rx_buffer_ # <<>>
    /\ bytes_received_ < expected_length_
    /\ ~inv.ret.has

\* C2: if the RX FIFO overflows between sync detection and frame
\* completion, then under every interleaving of the chip with the status
\* reads and FIFO reads the invocation that begins after the overflow
\* reaches Init and no value is emitted for that reception attempt.
C2_OverflowAbortsAttempt ==
    Returned =>
        /\ inv.overflow_at_entry => (inv.to_init /\ ~inv.ret.has)
        /\ inv.ret.has => ~inv.overflow_at_return

\* the cases of the switch an invocation has evaluated, as a set
Evaluated == {inv.trail[i] : i \in 1..Len(inv.trail)}

\* the invocation began in the WAIT_FOR_SYNC case
BeganInWaitForSync == inv.trail # <<>> /\ inv.trail[1] = "WAIT_FOR_SYNC"

\* C23: in WAIT_FOR_SYNC, if the overflow flag is set the step aborts to
\* INIT_RX without testing sync; the FIFO is flushed for noise only when
\* its occupancy exceeds 32 bytes and the sync-detect line is not asserted,
\* and then the state stays WAIT_FOR_SYNC; a step in which sync is asserted
\* never flushes the FIFO.
C23_NoiseFlushWithoutSync ==
    /\ (Returned /\ BeganInWaitForSync /\ inv.overflow_seen
        /\ inv.sync = "untested")
       => (rx_state_ = "INIT_RX" /\ ~inv.noise_flushed)
    /\ pc = "ws_flush" => FifoCount > 32
    /\ inv.noise_flushed => inv.sync # "high"
    /\ (Returned /\ inv.noise_flushed) => rx_state_ = "WAIT_FOR_SYNC"

\* C24: a read() invocation that starts in WAIT_FOR_SYNC with the sync line
\* asserted records sync_time_ and evaluates WAIT_FOR_DATA in the same
\* invocation; if the header is read and recognised there it evaluates
\* READ_DATA in that invocation too; the timeout check does not fire in the
\* invocation that recorded the timestamp.  (That such an invocation can
\* go all the way to frame completion is what the witness shows.)
C24_FallThrough ==
    (BeganInWaitForSync /\ inv.sync = "high") =>
        /\ "WAIT_FOR_DATA" \in Evaluated
        /\ pc # "idle" => since_sync = 0
        /\ ~inv.timeout_seen
        /\ Returned =>
              /\ wmbus_block_ # "UNKNOWN" => "READ_DATA" \in Evaluated
              /\ "READ_DATA" \in Evaluated => wmbus_block_ # "UNKNOWN"
              /\ inv.complete => "READ_DATA" \in Evaluated

\* one invocation went from WAIT_FOR_SYNC to the completed frame of 69
\* bytes and more, and returned its first byte
C24_Witness ==
    /\ Returned
    /\ BeganInWaitForSync
    /\ inv.trail = <<"WAIT_FOR_SYNC", "WAIT_FOR_DATA", "READ_DATA">>
    /\ inv.complete
    /\ inv.ret = Value(84)
    /\ expected_length_ = 69
    /\ bytes_received_ >= 69

\* the clock has wrapped around between sync_time_ and now
ClockWrapped ==
    millis[1] < sync_time_[1]
    \/ (millis[1] = sync_time_[1] /\ millis[2] < sync_time_[2])

\* C25: a read() invocation in WAIT_FOR_DATA made more than 50 ms after
\* the sync (the difference taken in uint32_t, so across a wrap-around of
\* millis() too) sets rx_state_ = INIT_RX and returns no value without
\* reading the FIFO, GDO0 asserted or not; one made at most 50 ms after
\* the sync does not abort for timeout and goes on to read GDO0.
C25_TimeoutAfterMaxWait ==
    [][(pc = "wd_timeout" /\ pc' # pc) =>
          IF elapsed > max_wait_time_
          THEN /\ rx_state_' = "INIT_RX"
               /\ pc' = "idle"
               /\ inv'.returned /\ inv'.timeout_seen
               /\ inv'.ret = NoValue
               /\ fifo_rd' = fifo_rd
               /\ rx_buffer_' = rx_buffer_
          ELSE /\ rx_state_' = "WAIT_FOR_DATA"
               /\ pc' = "wd_gdo0"
               /\ ~inv'.timeout_seen]_vars

\* an invocation 51 ms after a sync taken 40 ms before the wrap of the
\* clock has timed out with GDO0 asserted
C25_Witness ==
    /\ Returned
    /\ inv.trail = <<"WAIT_FOR_DATA">>
    /\ inv.timeout_seen
    /\ rx_state_ = "INIT_RX"
    /\ elapsed = max_wait_time_ + 1
    /\ ClockWrapped
    /\ millis = <<0, 11>>
    /\ Gdo0

\* the header was classified and the length mode decided; the frame is
\* being received
LengthModeDecided ==
    /\ pc \notin {"wd_header", "wd_config"}
    /\ wmbus_block_ # "UNKNOWN"
    /\ rx_state_ \in {"WAIT_FOR_DATA", "READ_DATA"}

\* C26: after the header classification length_mode_ is FIXED if and only
\* if expected_length_ < 256, and then PKTLEN holds exactly
\* expected_length_ and PKTCTRL0 the fixed-length value 0; otherwise the
\* chip stays in infinite length mode (PKTCTRL0 = 2, PKTLEN untouched);
\* every init_rx_ restores INFINITE in the member and in the chip.
C26_FixedLengthMode ==
    /\ LengthModeDecided =>
          /\ (length_mode_ = "FIXED") <=> (expected_length_ < 256)
          /\ length_mode_ = "FIXED" =>
                (pktlen = expected_length_ /\ pktctrl0 = 0)
          /\ length_mode_ # "FIXED" =>
                (length_mode_ = "INFINITE" /\ pktctrl0 = 2 /\ pktlen = 255)
    /\ (Returned /\ inv.trail = <<"INIT_RX">>) =>
          (rx_state_ = "WAIT_FOR_SYNC" /\ length_mode_ = "INFINITE"
           /\ pktctrl0 = 2)
    /\ rx_state_ = "WAIT_FOR_SYNC" =>
          (length_mode_ = "INFINITE" /\ pktctrl0 = 2)

\* a block B frame of 7 bytes was received in fixed length mode with
\* PKTLEN = 7, it is complete, and the next invocation has put the chip
\* back into infinite length mode; PKTLEN keeps the 7
C26_Witness ==
    /\ Returned
    /\ inv.trail = <<"INIT_RX">>
    /\ pktlen = 7
    /\ pktctrl0 = 2
    /\ length_mode_ = "INFINITE"
    /\ rx_state_ = "WAIT_FOR_SYNC"

\* the number of bytes one read_data_ call reads with occupancy occ and
\* remaining bytes rem
ReadCount(occ, rem) ==
    IF occ > 48 THEN (IF occ < rem THEN occ ELSE rem)
    ELSE IF rem <= occ THEN rem
    ELSE IF occ <= 1 THEN 0 ELSE occ - 1

\* the call of SpecRd: the occupancy it found, the bytes that remained (the
\* size_t difference of the code), the bytes it has read so far
OccAtCall == fifo_wr - 4
RemainingAtCall ==
    SizeTSub(expected_length_, ClassifyHeader(tx).bytes_received)
ReadSoFar == fifo_rd - 4

\* C27: one read_data_ call with FIFO occupancy occ and remaining =
\* expected_length_ - bytes_received_ reads, before its completion check,
\* min(occ, remaining) bytes if occ > 48; remaining if occ <= 48 and
\* remaining <= occ; otherwise occ - 1 (0 when occ <= 1); never more than
\* occ nor more than remaining; bytes_received_ and the accumulator grow
\* by exactly that number.  For the occupancies 65..127, which RXBYTES can
\* report and the FIFO cannot hold, the same is checked of the computation.
C27_ReadDataCount ==
    LET want == ReadCount(OccAtCall, RemainingAtCall)
    IN  /\ ReadSoFar \in {0, want}
        /\ pc = "rd_read" => (n_read = want /\ want > 0 /\ ReadSoFar = 0)
        /\ pc \in {"idle", "rd_final"} => ReadSoFar = want
        /\ ReadSoFar <= OccAtCall /\ ReadSoFar <= RemainingAtCall
        /\ bytes_received_ = ClassifyHeader(tx).bytes_received + ReadSoFar
        /\ Len(rx_buffer_) = Len(ClassifyHeader(tx).buffer) + ReadSoFar
        /\ (pc = "rd_status" /\ OccAtCall = FifoSize) =>
              \A occ \in (FifoSize + 1)..127 :
                 LET n == Min(BytesToRead(occ, RemainingAtCall),
                              RemainingAtCall)
                 IN  /\ n = ReadCount(occ, RemainingAtCall)
                     /\ n <= occ /\ n <= RemainingAtCall

\* with 48 bytes in the FIFO and more than 48 to come, the call has read
\* 47 and left one
C27_Witness ==
    /\ pc = "rd_top"
    /\ OccAtCall = 48
    /\ RemainingAtCall > 48
    /\ ReadSoFar = 47
    /\ FifoCount = 1
    /\ bytes_received_ = 6 + 47

\* the bytes the invocation handed to its caller
Emitted == IF inv.ret.has THEN <<inv.ret.value>> ELSE <<>>

\* C28: on successful frame completion read() resets to INIT_RX and emits
\* the whole accumulated buffer to its caller: what the invocation returns
\* is the accumulator, which the init_rx_ of the next invocation clears.
C28_EmitsDecodedBuffer ==
    (Returned /\ inv.complete /\ ~inv.decode_failed) =>
        /\ rx_state_ = "INIT_RX"
        /\ Emitted = rx_buffer_

\* the two's-complement value of a register byte
Signed8(raw) == IF raw >= 128 THEN raw - 256 ELSE raw

\* C31: for every raw RSSI register value 0..255 get_rssi returns the
\* signed dBm value (two's-complement value of raw) / 2 - 74, which the
\* 8-bit signed return type can hold: the narrowing conversion never
\* wraps, a negative dBm level never comes out positive.
C31_RssiInRange ==
    rssi_pc = "done" =>
        LET dbm == TruncDiv(Signed8(rssi_raw), 2) - 74
        IN  /\ rssi_dbm = dbm
            /\ dbm \in -128..127
            /\ dbm < 0 => rssi_dbm <= 0

\* round(f * 65536 / 26) for f = c / 100 MHz: 65536 / 2600 = 8192 / 325,
\* and no c gives a tie
RoundedFreqReg(c) == (2 * c * 8192 + 325) \div 650

\* the value the table entry of register r holds
TableValue(r) ==
    LET i == CHOOSE k \in 1..Len(CC1101_WMBUS_RF_SETTINGS) :
                 CC1101_WMBUS_RF_SETTINGS[k][1] = r
    IN  CC1101_WMBUS_RF_SETTINGS[i][2]

\* C32: the three frequency registers written for a carrier frequency f
\* hold round(f_MHz * 65536 / 26) split big-endian into FREQ2, FREQ1,
\* FREQ0, and for f = 868.95 they are the values 0x21, 0x6B, 0xD0 of the
\* fixed RF configuration table.
C32_FrequencyRegisters ==
    freq_pc = "done" =>
        LET reg == RoundedFreqReg(frequency_mhz_)
        IN  /\ freq_ops = <<Write("FREQ2", (reg \div 65536) % 256),
                            Write("FREQ1", (reg \div 256) % 256),
                            Write("FREQ0", reg % 256)>>
            /\ frequency_mhz_ = 86895 =>
                  freq_ops = <<Write("FREQ2", TableValue("FREQ2")),
                               Write("FREQ1", TableValue("FREQ1")),
                               Write("FREQ0", TableValue("FREQ0"))>>

\* the headers classification is asked about: those of SpecHdr, and every
\* first byte with second bytes of every kind
ProbeHeaders ==
    AllHeaders
    \cup {<<a, b, 46, 12>> : a \in 0..255,
                             b \in {0, 61, 68, 84, 153, 205, 255}}

\* C33: on frame completion the ternary decoder is run when the detected
\* convention requires it: some header makes the classification detect
\* Mode T (so that decode3of6 is applied to the accumulated buffer before
\* emission), and no completed frame is emitted undecoded in Mode T.
C33_ModeTDetected ==
    /\ \E h \in ProbeHeaders : ClassifyHeader(h).mode = "T"
    /\ (Returned /\ inv.complete /\ wmbus_mode_ = "T") =>
          (inv.decode_failed => ~inv.ret.has)

\* C36: the READ_DATA loop of one read() invocation terminates: an
\* iteration completes the frame, or leaves the loop because no byte was
\* read, or has increased bytes_received_ (to a value below
\* expected_length_) when it goes round; an invocation begins at most
\* expected_length_ + 1 iterations, whatever the chip feeds, and returns.
C36_LoopTerminates ==
    /\ [](loop_counter <= expected_length_ + 1)
    /\ [][(pc \notin {"idle", "rd_top"} /\ pc' = "rd_top")
             => /\ bytes_received_' > bytes_received_
                /\ bytes_received_' < expected_length_]_vars
    /\ (pc # "idle") ~> (pc = "idle")

\* an invocation went round the loop three times and returned with the
\* frame still incomplete
C36_Witness ==
    /\ Returned
    /\ loop_counter >= 4
    /\ ~inv.complete
    /\ rx_state_ = "READ_DATA"
    /\ bytes_received_ < expected_length_

\* C37: with read() invoked again and again, a reception that has reached
\* READ_DATA ends: rx_state_ leaves READ_DATA for INIT_RX (frame completed
\* or aborted), also when the chip stops delivering bytes, as it does
\* after the fixed packet length, and the FIFO stays empty with no
\* overflow.
C37_ReceptionEnds ==
    (WF_vars(ChipStep))
    => ((rx_state_ = "READ_DATA") ~> (rx_state_ # "READ_DATA"))

\* C38: in the length-prefixed convention the accumulator holds the
\* L-field followed by the bytes that followed it in the FIFO, in FIFO
\* order and with none left out: its byte k is byte k + 2 of what the chip
\* received after the sync word.
C38_NoByteDropped ==
    (tx # <<>> /\ tx[1] = WMBUS_MODE_C_PREAMBLE)
    => \A k \in 1..Len(rx_buffer_) : rx_buffer_[k] = Stream(tx, k + 2)

\* the final drain of read_data_ has run and init_rx_ has not yet
AfterFinalDrain == pc = "idle" /\ inv.complete /\ rx_state_ = "INIT_RX"

C40_PollingRestart ==
    [][(RecvFrame /\ ~use_interrupt)
          => /\ recv_log'.restarted
                   <=> (recv_log.timeout_ms = 0 \/ recv_log.reached_send)
             /\ recv_log'.timeout_ms = 2
             /\ recv_log'.reads >= 1
             /\ SubSeq(recv_log'.order, Len(recv_log'.order) - recv_log'.reads,
                       Len(recv_log'.order) - recv_log'.reads + 1)
                   = <<"ulTaskNotifyTake", "read_in_task">>]_vars

--------------------------------------------------------------------------
(* Claims about decode3of6.                                                *)

\* bit k (0-based, most significant bit of byte 0 first) of a byte string
ByteBit(bytes, k) == Shr(bytes[(k \div 8) + 1], 7 - (k % 8)) % 2

\* the 6-bit window i (0-based) of a byte string, read bit by bit
Window(bytes, i) ==
    LET b(k) == ByteBit(bytes, 6 * i + k)
    IN  32 * b(0) + 16 * b(1) + 8 * b(2) + 4 * b(3) + 2 * b(4) + b(5)

\* every whole 6-bit window of the byte string is a code of the table
AllWindowsValid(bytes) ==
    \A i \in 0..(((Len(bytes) * 8) \div 6) - 1) :
        Window(bytes, i) \in DOMAIN lookupTable

\* C10: an input of a multiple of 3 bytes whose 6-bit windows are all table
\* codes decodes successfully to exactly 2*len/3 bytes, output byte k being
\* (nibble of symbol 2k << 4) | nibble of symbol 2k+1; the symbols 0b010110
\* 0b001101 give the byte 0x01.
C10_DecodeValidInput ==
    (dec_pc = "done" /\ Len(coded_data) % 3 = 0 /\ AllWindowsValid(coded_data))
    => /\ decoded.ok
       /\ Len(decoded.bytes) = (2 * Len(coded_data)) \div 3
       /\ \A k \in 0..(Len(decoded.bytes) - 1) :
             decoded.bytes[k + 1] =
                 16 * lookupTable[Window(coded_data, 2 * k)]
                 + lookupTable[Window(coded_data, 2 * k + 1)]
       /\ \A k \in 0..(Len(decoded.bytes) - 1) :
             (Window(coded_data, 2 * k) = 22 /\ Window(coded_data, 2 * k + 1) = 13)
             => decoded.bytes[k + 1] = 1

\* number of 1-bits of a 6-bit pattern
Ones(c) == (c % 2) + ((c \div 2) % 2) + ((c \div 4) % 2) + ((c \div 8) % 2)
           + ((c \div 16) % 2) + ((c \div 32) % 2)

\* the code the table gives a nibble: re-encoding
EncodeNibble(n) == CHOOSE c \in DOMAIN lookupTable : lookupTable[c] = n

\* the whole 6-bit windows of the input
WindowsOf(bytes) == 0..(Segments(bytes) - 1)

\* nibble i (0-based) of a decoded byte string
NibbleOf(bytes, i) ==
    IF i % 2 = 0 THEN bytes[(i \div 2) + 1] \div 16
    ELSE bytes[(i \div 2) + 1] % 16

\* window i of the input has bits beyond the last input byte
WindowPastEnd(bytes, i) == 6 * i + 6 > 8 * Len(bytes)

\* C34: decode3of6 reads no input byte at an index at or beyond the input
\* length (the bytes of every window it decodes are inside the input), and
\* it reports a buffer underrun only when the current 6-bit window extends
\* past the last input byte, never for a window that lies inside the input.
C34_UnderrunOnlyPastEnd ==
    dec_pc = "done" =>
        /\ \A i \in WindowsOf(coded_data) :
              (6 * i + 5) \div 8 < Len(coded_data)
        /\ decoded.err = "underrun" =>
              \E i \in WindowsOf(coded_data) : WindowPastEnd(coded_data, i)

\* the number of whole 6-bit symbols in an input of n bytes
WholeSymbols(n) == (8 * n) \div 6

\* C35: an input whose length is not a multiple of 3 bytes and whose whole
\* 6-bit windows are all table codes decodes floor(8*len/6) symbols, the
\* bits after the last whole window playing no part, into ceil(symbols/2)
\* bytes holding the nibbles of the windows in order; with an odd symbol
\* count the low nibble of the last byte is 0; the empty input decodes to
\* an empty successful result.
C35_AlignedPrefixDecoded ==
    /\ (dec_pc = "done" /\ Len(coded_data) % 3 # 0
                        /\ AllWindowsValid(coded_data))
       => LET symbols == WholeSymbols(Len(coded_data))
          IN  /\ decoded.ok
              /\ Len(decoded.bytes) = (symbols + 1) \div 2
              /\ \A i \in 0..(symbols - 1) :
                    NibbleOf(decoded.bytes, i)
                        = lookupTable[Window(coded_data, i)]
              /\ symbols % 2 = 1
                    => decoded.bytes[Len(decoded.bytes)] % 16 = 0
    /\ (dec_pc = "done" /\ coded_data = <<>>)
       => decoded.ok /\ decoded.bytes = <<>>

\* four input bytes, five valid symbols and two trailing bits, decoded to
\* three bytes
C35_Witness ==
    /\ dec_pc = "done"
    /\ Len(coded_data) = 4
    /\ AllWindowsValid(coded_data)
    /\ coded_data[4] % 4 # 0
    /\ decoded.ok
    /\ Len(decoded.bytes) = 3

\* C11: the lookup table is a bijection between 16 six-bit codes, each with
\* exactly three 1-bits, and the nibbles 0..15; every symbol decode3of6
\* decoded re-encodes through the table to the 6-bit window it came from;
\* and an input with a whole window holding any of the other 48 patterns
\* makes decode3of6 fail.
C11_TableBijection ==
    /\ Cardinality(DOMAIN lookupTable) = 16
    /\ DOMAIN lookupTable \subseteq 0..63
    /\ \A c \in DOMAIN lookupTable : Ones(c) = 3
    /\ {lookupTable[c] : c \in DOMAIN lookupTable} = 0..15
    /\ \A c \in DOMAIN lookupTable : EncodeNibble(lookupTable[c]) = c
    /\ dec_pc = "done" =>
          /\ decoded.ok =>
                \A i \in WindowsOf(coded_data) :
                    EncodeNibble(NibbleOf(decoded.bytes, i))
                        = Window(coded_data, i)
          /\ (\E i \in WindowsOf(coded_data) :
                 Window(coded_data, i) \notin DOMAIN lookupTable)
             => ~decoded.ok

\* a pattern with three 1-bits that is not a code of the table, after a
\* valid symbol, made the decode fail as an invalid symbol
C11_Witness ==
    /\ dec_pc = "done"
    /\ Segments(coded_data) >= 2
    /\ Window(coded_data, 0) \in DOMAIN lookupTable
    /\ Window(coded_data, 1) = 7
    /\ ~decoded.ok
    /\ decoded.err = "invalid"

\* C12: when decode3of6 fails, at whatever symbol position, its result is
\* empty and carries no partially decoded byte, and the input buffer is
\* left as it was.
C12_FailureIsEmpty ==
    /\ [](dec_pc = "done" /\ ~decoded.ok => decoded.bytes = <<>>)
    /\ [][dec_pc = "ready" => coded_data' = coded_data]_vars

\* the decode failed on the third symbol, after a whole byte was decoded
C12_Witness ==
    /\ dec_pc = "done"
    /\ Segments(coded_data) >= 3
    /\ Window(coded_data, 0) \in DOMAIN lookupTable
    /\ Window(coded_data, 1) \in DOMAIN lookupTable
    /\ Window(coded_data, 2) \notin DOMAIN lookupTable
    /\ ~decoded.ok

\* ceil(3 * n / 2): the least k with 2 * k >= 3 * n
CeilThreeHalves(n) ==
    CHOOSE k \in 0..(2 * n) :
        /\ 2 * k >= 3 * n
        /\ \A j \in 0..(2 * n) : 2 * j >= 3 * n => k <= j

\* C13: encoded_size(n) equals ceil(3*n/2) for every decoded length n of
\* the range, and is 0, 2, 3, 24, 26 for n = 0, 1, 2, 16, 17.
C13_EncodedSizeIsCeil ==
    enc_pc = "done" =>
        /\ enc_out = CeilThreeHalves(enc_n)
        /\ enc_n = 0 => enc_out = 0
        /\ enc_n = 1 => enc_out = 2
        /\ enc_n = 2 => enc_out = 3
        /\ enc_n = 16 => enc_out = 24
        /\ enc_n = 17 => enc_out = 26

\* encoded_size was applied to an odd length, where the rounding matters
C13_Witness ==
    /\ enc_pc = "done"
    /\ enc_n = 17
    /\ enc_out = 26

--------------------------------------------------------------------------
(* Claims about the header step of the receive state machine.              *)

\* ceil(l / 16): the least k with 16 * k >= l
CeilSixteenth(l) ==
    CHOOSE k \in 0..16 : 16 * k >= l /\ \A j \in 0..16 : 16 * j >= l => k <= j

\* wait_for_data_ has just classified the header
Classified == pc = "wd_config"

\* read() is entering READ_DATA
EnteringReadData == rx_state_ = "READ_DATA" /\ pc = "rd_top"

\* C14: for a header beginning 0x54 with L-field L: block type 0xCD gives
\* expected_length = 2 + (L + 2*ceil(L/16) + 1), which is 15 for L = 10;
\* block type 0x3D gives expected_length = 2 + 1 + L; and in both cases
\* right after classification the accumulator holds the L-field only and
\* bytes_received = 1.
C14_PreambleHeader ==
    (Classified /\ tx[1] = 84) =>
        /\ tx[2] = 205 =>
              /\ expected_length_ = 2 + (tx[3] + 2 * CeilSixteenth(tx[3]) + 1)
              /\ tx[3] = 10 => expected_length_ = 15
        /\ tx[2] = 61 => expected_length_ = 2 + 1 + tx[3]
        /\ tx[2] \in {205, 61}
        /\ rx_buffer_ = <<tx[3]>>
        /\ bytes_received_ = 1

\* the block A header with L-field 10 of the example has been classified
C14_Witness ==
    /\ Classified
    /\ tx = <<84, 205, 10, 68>>
    /\ expected_length_ = 15
    /\ rx_buffer_ = <<10>>

FrameInProgress ==
    \/ rx_state_ = "READ_DATA"
    \/ rx_state_ = "WAIT_FOR_DATA" /\ pc \in {"wd_config", "wd_drain",
                                              "wd_drain_read"}

\* C16: whenever a frame is in progress, bytes_received <= expected_length
\* <= MAX_FRAME_SIZE, so that the unsigned subtraction expected_length -
\* bytes_received never wraps.
C16_ReceivedWithinExpected ==
    FrameInProgress =>
        /\ bytes_received_ <= expected_length_
        /\ expected_length_ <= MAX_FRAME_SIZE

\* the accumulator as init_rx_ leaves it
AccumulatorEmptied ==
    /\ rx_buffer_ = <<>>
    /\ bytes_received_ = 0
    /\ expected_length_ = 0
    /\ wmbus_mode_ = "UNKNOWN"
    /\ wmbus_block_ = "UNKNOWN"
    /\ length_mode_ = "INFINITE"

\* C17: no data of an aborted or emitted reception attempt is carried into
\* a later frame: whenever the state machine is in WAIT_FOR_SYNC, and
\* whenever wait_for_data_ is about to read and classify a header, the
\* accumulator is as init_rx_ emptied it.
C17_AccumulationStartsEmptied ==
    (rx_state_ = "WAIT_FOR_SYNC" \/ pc = "wd_header") => AccumulatorEmptied

\* C18: when a header starts with 0x54 and its block type is neither 0xCD
\* nor 0x3D, the invocation that read it sets rx_state_ = INIT_RX, so that
\* no later byte of that transmission is read as a header.
C18_UnknownBlockRestarts ==
    (Returned /\ inv.unknown_block) => (inv.to_init /\ rx_state_ = "INIT_RX")

--------------------------------------------------------------------------
(* Claims about the setup sequence.                                        *)

\* the strobes of a log, as a set, and its register writes, in order
StrobesOf(ops) == {ops[i].reg : i \in {j \in 1..Len(ops) : ops[j].op = "strobe"}}
WritesOf(ops) == SelectSeq(ops, LAMBDA o : o.op = "write")

\* C19: if VERSION reads 0x00 or 0xFF, CC1101::setup marks the transceiver
\* failed, writes no RF configuration register, issues no calibration and
\* no receive-enable strobe; for any other VERSION value it applies the
\* settings, calibrates and enters receive.
C19_IdentityCheck ==
    su_pc \in {"cc_done", "radio_done"} =>
        IF version \in {0, 255}
        THEN /\ cc_failed
             /\ WritesOf(setup_ops) = <<>>
             /\ StrobesOf(setup_ops) = {"SRES"}
             /\ rx_state_ = "INIT_RX"
        ELSE /\ ~cc_failed
             /\ \A i \in 1..Len(CC1101_WMBUS_RF_SETTINGS) :
                   \E j \in 1..Len(setup_ops) :
                      setup_ops[j] = Write(CC1101_WMBUS_RF_SETTINGS[i][1],
                                           CC1101_WMBUS_RF_SETTINGS[i][2])
             /\ {"SCAL", "SRX"} \subseteq StrobesOf(setup_ops)
             /\ setup_ops[Len(setup_ops)] = Strobe("SRX")
             /\ rx_state_ = "WAIT_FOR_SYNC"

\* setup has run against a chip that answers 0xFF
C19_Witness ==
    /\ su_pc = "cc_done"
    /\ version = 255
    /\ cc_failed
    /\ setup_ops = << Strobe("SRES"), StatusRead("PARTNUM"),
                      StatusRead("VERSION") >>

\* the positions of a log at which op stands
PositionsOf(ops, op) == {i \in 1..Len(ops) : ops[i] = op}

\* the position of the last write of the RF settings table in the log
LastTableWrite == 3 + Len(CC1101_WMBUS_RF_SETTINGS)

\* C21: on the successful setup path the operations occur in this order:
\* chip reset, identity check, all 47 RF configuration register writes in
\* table order and in full, the optional frequency-register overwrite, the
\* calibration strobe, and only then the first receive-enable (SRX) strobe;
\* no SRX strobe is issued before the last table entry is written.
C21_SetupOrder ==
    (su_pc \in {"cc_done", "radio_done"} /\ ~cc_failed) =>
        LET n    == Len(CC1101_WMBUS_RF_SETTINGS)
            freq == IF custom_frequency THEN 3 ELSE 0
            scal == LastTableWrite + freq + 1
        IN  /\ n = 47
            /\ setup_ops[1] = Strobe("SRES")
            /\ setup_ops[2] = StatusRead("PARTNUM")
            /\ setup_ops[3] = StatusRead("VERSION")
            /\ \A i \in 1..n :
                  setup_ops[3 + i] = Write(CC1101_WMBUS_RF_SETTINGS[i][1],
                                           CC1101_WMBUS_RF_SETTINGS[i][2])
            /\ custom_frequency =>
                  /\ setup_ops[LastTableWrite + 1].op = "write"
                  /\ setup_ops[LastTableWrite + 1].reg = "FREQ2"
                  /\ setup_ops[LastTableWrite + 2].op = "write"
                  /\ setup_ops[LastTableWrite + 2].reg = "FREQ1"
                  /\ setup_ops[LastTableWrite + 3].op = "write"
                  /\ setup_ops[LastTableWrite + 3].reg = "FREQ0"
            /\ PositionsOf(setup_ops, Strobe("SCAL")) = {scal}
            /\ PositionsOf(setup_ops, Strobe("SRX")) # {}
            /\ \A i \in PositionsOf(setup_ops, Strobe("SRX")) :
                  i > scal /\ i > LastTableWrite

\* setup has run to the end with a custom carrier frequency: 3 + 47 + 3 + 1
\* operations, then the 7 of restart_rx
C21_Witness ==
    /\ su_pc = "cc_done"
    /\ ~cc_failed
    /\ custom_frequency
    /\ Len(setup_ops) = 61
    /\ setup_ops[61] = Strobe("SRX")
    /\ setup_ops[51] = Write("FREQ2", 33)

\* C20: after an identity failure at setup the receiver task never calls
\* restart_rx or the read entry point on the transceiver.
C20_NoReceiveOnFailed ==
    cc_failed => (~recv_log.restarted /\ recv_log.reads = 0)

\* C22: init_rx_ always terminates, after at most 10 status polls for IDLE
\* and at most 10 for RX, and always leaves rx_state_ = WAIT_FOR_SYNC with
\* the chip commanded to infinite packet length (PKTCTRL0 = 0x02, written
\* before SRX) and the accumulator cleared, whatever the MARCSTATE reads
\* return, also when none of them is RX.
C22_InitRxTerminates ==
    /\ [](/\ idle_polls <= 10
          /\ rx_polls <= 10
          /\ ir_pc = "done" => /\ rx_state_ = "WAIT_FOR_SYNC"
                               /\ pktctrl0 = 2
                               /\ length_mode_ = "INFINITE"
                               /\ rx_buffer_ = <<>>)
    /\ <>(ir_pc = "done")

\* the chip answered neither IDLE nor RX to any of the twenty polls, and
\* init_rx_ has returned
C22_Witness ==
    /\ ir_pc = "done"
    /\ idle_polls = 10
    /\ rx_polls = 10
    /\ ~rx_entered
    /\ marc = "RX_OVERFLOW"
    /\ rx_state_ = "WAIT_FOR_SYNC"

--------------------------------------------------------------------------
(* Claims about the handoff queue, the receiver task and the consumer.     *)

Range(seq) == {seq[i] : i \in 1..Len(seq)}

\* the packets Radio::loop has dequeued, in the order it dequeued them
DeliveredPkts == [i \in 1..Len(delivered) |-> delivered[i].pkt]

\* the packets the producer destroyed after a failed xQueueSend
Dropped == {id \in 1..MaxPackets : "producer" \in freed[id]}

\* seq without the elements outside S
Restrict(seq, S) == SelectSeq(seq, LAMBDA x : x \in S)

\* C3: the queue never holds more than 3 packets; a packet sent while 3
\* are pending is dropped and never reaches the consumer, and the 3 pending
\* packets are still dequeued by Radio::loop in their original order.
C3_QueueCapacity ==
    /\ Len(packet_queue_) <= 3
    /\ \A d \in Dropped : d \notin Range(packet_queue_) \cup Range(DeliveredPkts)
    /\ Len(send_log.pending) = 3
       => /\ send_log.status = "errQUEUE_FULL"
          /\ send_log.pkt \in Dropped
          /\ Restrict(DeliveredPkts \o packet_queue_, Range(send_log.pending))
                = send_log.pending

\* a fourth packet was sent while three were pending, and the consumer has
\* since dequeued all three
C3_Witness ==
    /\ send_log.status = "errQUEUE_FULL"
    /\ send_log.pkt = 4
    /\ send_log.pending = <<1, 2, 3>>
    /\ DeliveredPkts = <<1, 2, 3>>

\* C4: the packets dequeued by Radio::loop are a subsequence of the frames
\* the receiver completed, in the same order: none is delivered before an
\* earlier one, none twice (packets are numbered in completion order).
C4_DeliveryOrder ==
    /\ \A i \in 1..Len(delivered) : delivered[i].pkt \in 1..created
    /\ \A i, j \in 1..Len(delivered) :
          i < j => delivered[i].pkt < delivered[j].pkt

\* of four completed frames the fourth was dropped and the first three
\* were delivered
C4_Witness ==
    /\ created = 4
    /\ 4 \in Dropped
    /\ DeliveredPkts = <<1, 2, 3>>

\* C5: the receiver is never blocked by the queue: whatever the consumer
\* does, also if it never runs and the queue stays full, every
\* receive_frame invocation returns and the task starts the next one.
C5_ReceiverNeverStalled == (rpc # "start") ~> (rpc = "start")

\* the consumer never ran, the queue is full, and receive_frame returned
\* from a failed send
C5_Witness ==
    /\ tick.outcome = "none"
    /\ Len(packet_queue_) = 3
    /\ send_log.status = "errQUEUE_FULL"
    /\ rpc = "start"

\* C29: for an interrupt-driven transceiver every receive_frame invocation
\* calls restart_rx before it waits for the notification, with a timeout of
\* 60 s; if the wait times out the invocation attempts no read and does
\* not get to the enqueue.
C29_InterruptWait ==
    /\ (use_interrupt /\ recv_log.timeout_ms # 0) =>
          /\ recv_log.restarted
          /\ recv_log.timeout_ms = 60000
          /\ SubSeq(recv_log.order, 1, 2) = <<"restart_rx", "ulTaskNotifyTake">>
          /\ ~recv_log.taken =>
                /\ recv_log.order = <<"restart_rx", "ulTaskNotifyTake">>
                /\ recv_log.reads = 0
                /\ ~recv_log.reached_send
                /\ rpc = "start"
    /\ (use_interrupt /\ rpc \in {"send", "sent"}) => recv_log.taken

\* an interrupt-driven radio has delivered a packet, and the invocation
\* after it has timed out waiting, the queue as it was
C29_Witness ==
    /\ use_interrupt
    /\ created >= 1
    /\ recv_log.order = <<"restart_rx", "ulTaskNotifyTake">>
    /\ recv_log.timeout_ms = 60000
    /\ ~recv_log.taken
    /\ ~notify_pending
    /\ rpc = "start"
    /\ Len(packet_queue_) = 1

\* C30: no frame can crash the consumer: when no handler claims a frame
\* the diagnostic path of Radio::loop never takes the last element of an
\* empty address list, whether the header parse succeeds or fails and
\* whether the address list is empty or not.
C30_DiagnosticNeverCrashes ==
    (tick.outcome = "dispatched" /\ ~tick.diag.handled) =>
        /\ tick.diag.log \in {"no_address", "address"}
        /\ tick.diag.log = "address" => ~tick.diag.addresses_empty

\* where a packet is: held by the producer's unique_ptr, in the queue, or
\* taken (and consumed) by the consumer
Places(id) ==
    (IF packet = id THEN {"producer"} ELSE {})
    \cup (IF id \in Range(packet_queue_) THEN {"queue"} ELSE {})
    \cup (IF "consumer" \in freed[id] THEN {"consumer"} ELSE {})

\* C6: every packet is in at most one place at a time (producer, queue or
\* consumer); it is in the queue only with both reads done and the RSSI
\* stamped; it is consumed at most once; and it is never both destroyed by
\* the producer and in the queue.
C6_PacketInOnePlace ==
    /\ \A id \in 1..created : Cardinality(Places(id)) <= 1
    /\ \A id \in Range(packet_queue_) :
          packet_info[id] = [read1 |-> TRUE, read2 |-> TRUE, rssi |-> TRUE]
    /\ \A i, j \in 1..Len(delivered) :
          i # j => delivered[i].pkt # delivered[j].pkt
    /\ \A id \in 1..created :
          ~("producer" \in freed[id] /\ id \in Range(packet_queue_))

\* C7: for every frame converted in Radio::loop every registered handler is
\* invoked exactly once, within that tick, in registration order (handlers
\* are named by registration number).
C7_HandlersInOrder ==
    /\ tick.outcome = "dispatched"
       => /\ Len(tick.calls) = Len(tick.handlers_before)
          /\ \A k \in 1..Len(tick.calls) : tick.calls[k] = <<tick.pkt, k>>
    /\ \A i, j \in 1..Len(calls) : i # j => calls[i] # calls[j]

\* a frame was dispatched to two registered handlers
C7_Witness ==
    /\ tick.outcome = "dispatched"
    /\ tick.calls = <<(<<tick.pkt, 1>>), (<<tick.pkt, 2>>)>>

\* C8: when the conversion of a dequeued packet fails, no handler is invoked
\* for it, the packet is discarded, and the handler list and the rest of
\* the queue are as they were.
C8_ConversionFailure ==
    /\ tick.outcome = "convert_failed"
       => /\ tick.calls = <<>>
          /\ tick.handlers_after = tick.handlers_before
          /\ tick.after = Tail(tick.pending)
          /\ tick.pkt \notin Range(packet_queue_)
    /\ \A i \in 1..Len(delivered) :
          ~delivered[i].ok => \A c \in Range(calls) : c[1] # delivered[i].pkt

\* a conversion failed with two more packets pending and a handler
\* registered
C8_Witness ==
    /\ tick.outcome = "convert_failed"
    /\ Len(tick.pending) = 3
    /\ Len(tick.handlers_before) >= 1
    /\ Len(tick.after) = 2

\* C9 as claimed: when a tick ends, every packet that was pending when it
\* began has been dequeued and processed; a tick on an empty queue invokes
\* no handler.
C9_TickDrainsQueue ==
    /\ tick.outcome # "none"
       => Range(tick.pending) \subseteq Range(DeliveredPkts)
    /\ tick.outcome = "empty" => tick.calls = <<>>

\* C9 as amended: a tick never waits and dequeues at most one packet, the
\* oldest pending one, which it processes; the packets behind it stay in
\* the queue in order; a tick on an empty queue invokes no handler.
C9_TickTakesOldest ==
    /\ ENABLED (Loop /\ UNCHANGED <<decVars, encVars, rxVars, suVars, irVars, clkVars, numVars>>)
    /\ tick.outcome = "empty"
       => tick.pending = <<>> /\ tick.after = <<>> /\ tick.calls = <<>>
    /\ tick.outcome \in {"dispatched", "convert_failed"}
       => /\ tick.pending # <<>>
          /\ tick.pkt = Head(tick.pending)
          /\ tick.after = Tail(tick.pending)
          /\ tick.pkt \in Range(DeliveredPkts)
          /\ tick.pkt \notin Range(packet_queue_)

\* a tick began with three packets pending and left two of them queued
C9_Witness ==
    /\ tick.outcome = "dispatched"
    /\ Len(tick.pending) = 3
    /\ tick.after = Tail(tick.pending)
    /\ packet_queue_ = tick.after

==========================================================================
